---- MODULE Spec2Model ----
(***************************************************************************)
(* kaijs: the optimistic updater of artifact documents (src/src/db.ts,     *)
(* src/src/dbMsgHandlers.ts) and the OpenSearch bulk loader                *)
(* (src/src/loader_opensearch.ts).                                          *)
(*                                                                         *)
(* A document is represented by its leaf-path map: a function from paths   *)
(* (tuples of keys, arrays taken whole) to values.  A path that is absent  *)
(* from the object is absent from the function's domain.                   *)
(***************************************************************************)
EXTENDS Integers, Sequences, FiniteSets, Bags, TLC

\* ------------------------------------------------------------------ bounds
\* total number of add() calls in one behaviour
MaxAdds == 3
\* number of store calls that may fail (transient adapter errors)
MaxFaults == 1
\* add() calls in a behaviour whose store fails throughout
ExhaustAdds == 1
\* envelopes the listener pushes to the file-queue in one behaviour
MaxArrivals == 3
\* seconds the wall clock runs
MaxTime == 4
\* broker deliveries the listener receives in one behaviour
MaxDeliveries == 3
\* connectionOpen events (the first open and the reconnects) in one behaviour
MaxOpens == 3

\* ------------------------------------------------------- program constants
\* db.ts:404  let retries_left = 30
RetriesInit == 30

\* loader_opensearch.ts:150-153
bulkSecondsThreshold == 3
bulkMaxEntries == 100
\* 1024 * 1024 * 1024 * 50 bytes, counted here in KiB
bulkMaxSize == 1024 * 1024 * 50

Updaters == {1, 2}

\* artifact.id of the envelopes of one behaviour (a Koji task id)
TaskIds == {1, 42}

UNDEFINED == "<undefined>"

\* ------------------------------------------------------------ the inputs
\* File-queue envelopes for one artifact.  body.artifact.id is chosen in Init.
Envelopes ==
  { [broker_msg_id |-> "m1", broker_topic |-> "org.centos.prod.ci.koji-build.test.queued",
     state |-> "queued", stage |-> "test",
     pipeline_id |-> "T1", run_url |-> "", generated_at |-> 1,
     nvr |-> "nvr-1", test_case_name |-> "x.y.z"],
    [broker_msg_id |-> "m2", broker_topic |-> "org.centos.prod.ci.koji-build.test.complete",
     state |-> "complete", stage |-> "test",
     pipeline_id |-> "T1", run_url |-> "", generated_at |-> 2,
     nvr |-> UNDEFINED, test_case_name |-> "x.y.z"],
    [broker_msg_id |-> "m3", broker_topic |-> "org.centos.prod.ci.koji-build.test.queued",
     state |-> "queued", stage |-> "test",
     pipeline_id |-> "", run_url |-> "http://ci/run/7", generated_at |-> 1,
     nvr |-> UNDEFINED, test_case_name |-> UNDEFINED],
    [broker_msg_id |-> "m4", broker_topic |-> "org.example.unknown",
     state |-> "unknown", stage |-> "example",
     pipeline_id |-> "T1", run_url |-> "", generated_at |-> 1,
     nvr |-> UNDEFINED, test_case_name |-> UNDEFINED] }

\* a CI state envelope whose body has neither pipeline.id nor run.url, and one
\* that has a pipeline.id
EnvelopesThread ==
  { [broker_msg_id |-> "m5", broker_topic |-> "org.centos.prod.ci.koji-build.test.running",
     state |-> "running", stage |-> "test",
     pipeline_id |-> UNDEFINED, run_url |-> UNDEFINED, generated_at |-> 3,
     nvr |-> UNDEFINED, test_case_name |-> UNDEFINED] }
  \cup {env \in Envelopes : env.broker_msg_id = "m1"}

\* a build-tag envelope and CI state envelopes of the same artifact; the CI
\* envelopes carry body.artifact.nvr equal to the build's, absent, empty, and
\* different from it
EnvelopesTag ==
  { [broker_msg_id |-> "t1", broker_topic |-> "org.fedoraproject.prod.buildsys.tag",
     build_id |-> 1728223, owner |-> "musuruan"],
    [broker_msg_id |-> "m6", broker_topic |-> "org.centos.prod.ci.koji-build.test.running",
     state |-> "running", stage |-> "test",
     pipeline_id |-> "T1", run_url |-> "", generated_at |-> 2,
     nvr |-> "", test_case_name |-> "x.y.z"],
    [broker_msg_id |-> "m7", broker_topic |-> "org.centos.prod.ci.koji-build.test.error",
     state |-> "error", stage |-> "test",
     pipeline_id |-> "T2", run_url |-> "", generated_at |-> 3,
     nvr |-> "nvr-2", test_case_name |-> UNDEFINED] }
  \cup {env \in Envelopes : env.broker_msg_id \in {"m1", "m2"}}

\* CI state envelopes that differ in the sources of the thread id: run.url
\* alone (two envelopes with the same url, one with another url), and a
\* pipeline.id together with a run.url
EnvelopesRunUrl ==
  { [broker_msg_id |-> "m8", broker_topic |-> "org.centos.prod.ci.koji-build.test.queued",
     state |-> "queued", stage |-> "test",
     pipeline_id |-> "T2", run_url |-> "http://ci/run/7", generated_at |-> 1,
     nvr |-> UNDEFINED, test_case_name |-> UNDEFINED],
    [broker_msg_id |-> "m9", broker_topic |-> "org.centos.prod.ci.koji-build.test.running",
     state |-> "running", stage |-> "test",
     pipeline_id |-> UNDEFINED, run_url |-> "http://ci/run/7", generated_at |-> 2,
     nvr |-> UNDEFINED, test_case_name |-> UNDEFINED],
    [broker_msg_id |-> "m10", broker_topic |-> "org.centos.prod.ci.koji-build.test.queued",
     state |-> "queued", stage |-> "test",
     pipeline_id |-> "", run_url |-> "http://ci/run/8", generated_at |-> 1,
     nvr |-> UNDEFINED, test_case_name |-> UNDEFINED] }
  \cup {env \in Envelopes : env.broker_msg_id = "m3"}

\* envelopes that differ in their topic: a declared build-tag topic, the same
\* words joined by another character, a declared CI topic, a CI topic with a
\* word appended, and a topic of another system
EnvelopesTopics ==
  { [broker_msg_id |-> "t3", broker_topic |-> "org-fedoraproject-prod-buildsys-tag",
     build_id |-> 1728223, owner |-> "musuruan"],
    [broker_msg_id |-> "m11",
     broker_topic |-> "org.centos.prod.ci.koji-build.test.queued.copy",
     state |-> "queued", stage |-> "test",
     pipeline_id |-> "T1", run_url |-> "", generated_at |-> 1,
     nvr |-> "nvr-1", test_case_name |-> "x.y.z"] }
  \cup {env \in EnvelopesTag : env.broker_msg_id \in {"t1", "m1"}}
  \cup {env \in Envelopes : env.broker_msg_id = "m4"}

NoEnvelope == [broker_msg_id |-> "none"]

VARIABLES
  task_id,        \* body.artifact.id of this behaviour's envelopes
  collection,     \* the artifacts collection: a sequence of documents
  pc,             \* per updater: where its add() stands
  message,        \* per updater: the envelope add() was called with
  retries_left,   \* per updater: db.ts:404
  artifact,       \* per updater: the handler's proposal (db.ts:420)
  db_entry,       \* per updater: the re-read document (db.ts:428)
  adds_left,      \* add() calls still to be started
  faults_left,    \* store failures still to be injected
  attempts,       \* per updater: handler invocations of the current add()
  writes,         \* successful conditional updates so far
  cas_log,        \* successful conditional updates: <<updater, _version matched>>
  returned,       \* msg ids for which an add() returned a document
  redelivered,    \* per updater: add() had already returned for this msg id
  misses,         \* per updater: conditional updates of the current add() that missed
  last_op,        \* the last store operation and its outcome
  thrown,         \* per updater: the error its add() threw, NoError when none
  touched         \* per updater: its current add() has inserted or modified a document

VARIABLES
  lpc,            \* the bulk loader's position: "init", "schemas", "tpop",
                  \* "getMsgUpserts", "bulkUpdate", "exited"
  queue,          \* the file-queue: the visible envelopes, head first
  fq_entry,       \* loader_opensearch.ts:161: the entry tpop returned
  fqEntries,      \* loader_opensearch.ts:146
  bulkUpserts,    \* loader_opensearch.ts:147
  bulkSizeBytes,  \* loader_opensearch.ts:148, in KiB
  prevMsgTime,    \* loader_opensearch.ts:149, in seconds
  secondsBetweenMessages, \* loader_opensearch.ts:190
  now,            \* the wall clock, in seconds
  arrivals,       \* envelopes pushed to the file-queue so far
  committed,      \* ids whose commit was called, in call order
  rolled_back,    \* ids whose rollback was called, in call order
  bulk_calls,     \* the bulk writes issued: the upserts handed to each
  exit_code       \* -1 while the process runs, then what process.exit got

lvars == <<lpc, queue, fq_entry, fqEntries, bulkUpserts, bulkSizeBytes, prevMsgTime,
           secondsBetweenMessages, now, arrivals, committed, rolled_back, bulk_calls,
           exit_code>>

avars == <<task_id, collection, pc, message, retries_left, artifact, db_entry,
          adds_left, faults_left, attempts, writes, cas_log, returned, redelivered,
          misses, last_op, thrown, touched>>

VARIABLES
  deliveries,     \* the listener: what process_msg did with each broker delivery
  links,          \* dbMsgHandlers.ts:471: the receivers added to the set
  create_rounds,  \* the calls of create_links: the position of each in its loop
  opens           \* connectionOpen events so far

svars == <<deliveries, links, create_rounds, opens>>

VARIABLES
  ipc,            \* cfg_indexes: "start", "drop", "create", "done", "failed"
  db_indexes,     \* the names of the indexes the store holds for the collection
  indexes_config, \* db.ts:152: the names of the configured indexes, in order
  indexes_active, \* db.ts:153: the names collection.indexes() returned
  index_pos,      \* the position of the running for-loop
  dropped,        \* names handed to dropIndex
  created         \* names handed to createIndex

ivars == <<ipc, db_indexes, indexes_config, indexes_active, index_pos, dropped, created>>

vars == <<avars, lvars, svars, ivars>>

\* ---------------------------------------------------------------- helpers
Put(doc, p, v) == [q \in (DOMAIN doc) \cup {p} |-> IF q = p THEN v ELSE doc[q]]

Without(doc, ps) == [q \in (DOMAIN doc) \ ps |-> doc[q]]

Overlay(doc, upd) ==
  [q \in (DOMAIN doc) \cup (DOMAIN upd) |-> IF q \in DOMAIN upd THEN upd[q] ELSE doc[q]]

EmptyDoc == [q \in {} |-> 0]

Range(s) == {s[i] : i \in DOMAIN s}

\* the type of the value a path holds
Kind(p) ==
  CASE p[1] = "_id" -> "oid"
    [] p[1] \in {"type", "aid"} -> "str"
    [] p[1] \in {"_version", "current_state_lenghts"} -> "num"
    [] p[1] \in {"states", "current_state"} -> "arrS"
    [] p[1] = "resultsdb_testcase" -> "arrT"
    [] p[1] = "rpm_build" -> IF p[2] \in {"task_id", "build_id"} THEN "num"
                             ELSE IF p[2] = "scratch" THEN "bool" ELSE "str"

IsArrayKind(k) == k \in {"arrS", "arrT"}

\* _.isEqual(a, b) for the value a at path p and the value b at path q
isEqual(a, p, b, q) ==
  IF Kind(p) = Kind(q)
  THEN a = b
  ELSE IsArrayKind(Kind(p)) /\ IsArrayKind(Kind(q)) /\ Len(a) = 0 /\ Len(b) = 0

\* ---------------------------------------------------- thread id and state
\* crypto.createHash('sha256').update(run_url).digest('hex'), as a table
Sha256Hex(url) ==
  CASE url = "http://ci/run/7" -> "9f2c"
    [] url = "http://ci/run/8" -> "41aa"
    [] OTHER -> "0000"

DummyThread(hash) ==
  CASE hash = "9f2c" -> "dummy-thread-9f2c"
    [] hash = "41aa" -> "dummy-thread-41aa"
    [] OTHER -> "dummy-thread-0000"

\* a derivation that looks at run.url first
mk_thread_id_RunUrlFirst(broker_msg) ==
  IF broker_msg.run_url # "" /\ broker_msg.run_url # UNDEFINED
  THEN DummyThread(Sha256Hex(broker_msg.run_url))
  ELSE IF broker_msg.pipeline_id # "" /\ broker_msg.pipeline_id # UNDEFINED
       THEN broker_msg.pipeline_id
       ELSE UNDEFINED

\* dbMsgHandlers.ts:135  (msg_handlers.ts:83 is the same function)
mk_thread_id(broker_msg) ==
  IF broker_msg.pipeline_id # "" /\ broker_msg.pipeline_id # UNDEFINED
  THEN broker_msg.pipeline_id
  ELSE IF broker_msg.run_url # "" /\ broker_msg.run_url # UNDEFINED
       THEN DummyThread(Sha256Hex(broker_msg.run_url))
       ELSE UNDEFINED

\* dbMsgHandlers.ts:167
mk_state(broker_msg) ==
  [thread_id |-> mk_thread_id(broker_msg),
   msg_id |-> broker_msg.broker_msg_id,
   stage |-> broker_msg.stage,
   state |-> broker_msg.state,
   timestamp |-> broker_msg.generated_at,
   test_case_name |-> broker_msg.test_case_name]

\* ------------------------------------------------ actualize_current_states
RECURSIVE Uniq(_)
\* distinct elements, in the order of their first occurrence
Uniq(s) ==
  IF s = <<>> THEN <<>>
  ELSE LET r == Uniq(SubSeq(s, 1, Len(s) - 1))
           x == s[Len(s)]
       IN IF x \in Range(r) THEN r ELSE Append(r, x)

MapSeq(s, Op(_)) == [i \in DOMAIN s |-> Op(s[i])]

ThreadOf(st) == st.thread_id
StateOf(st) == st.state
TestCaseOf(st) == st.test_case_name
MsgIdOf(st) == st.msg_id

\* the oldest state of a thread in place of the most recent
recent_of_thread_Oldest(states, t) ==
  LET idx == {i \in DOMAIN states : states[i].thread_id = t}
      best == CHOOSE i \in idx :
                \A j \in idx : \/ states[j].timestamp > states[i].timestamp
                               \/ (states[j].timestamp = states[i].timestamp /\ i <= j)
  IN states[best]

\* _.first(_.orderBy(group, 'kai_state.timestamp', 'desc')): the sort is stable
recent_of_thread(states, t) ==
  LET idx == {i \in DOMAIN states : states[i].thread_id = t}
      best == CHOOSE i \in idx :
                \A j \in idx : \/ states[j].timestamp < states[i].timestamp
                               \/ (states[j].timestamp = states[i].timestamp /\ i <= j)
  IN states[best]

\* every state kept, none chosen per thread
recent_for_each_thread_Every(states) == states

\* dbMsgHandlers.ts:221-235: group by thread_id, the most recent of each group
recent_for_each_thread(states) ==
  LET threads == Uniq(MapSeq(states, ThreadOf))
  IN [k \in DOMAIN threads |-> recent_of_thread(states, threads[k])]

known_states(states) == Range(MapSeq(states, StateOf)) \ {"", UNDEFINED}

\* the buckets without the empty ones of dbMsgHandlers.ts:244-253
current_state_of_NoEmpty(states) ==
  LET recent == recent_for_each_thread(states)
  IN [s \in Range(MapSeq(recent, StateOf)) |->
        SelectSeq(recent, LAMBDA st : st.state = s)]

\* dbMsgHandlers.ts:237-253
current_state_of(states) ==
  LET recent == recent_for_each_thread(states)
      keys == Range(MapSeq(recent, StateOf)) \cup known_states(states)
  IN [s \in keys |-> SelectSeq(recent, LAMBDA st : st.state = s)]

\* dbMsgHandlers.ts:255-260
current_state_lenghts_of(current_state) ==
  [s \in DOMAIN current_state |-> Len(current_state[s])]

\* dbMsgHandlers.ts:261-268
resultsdb_testcase_of(states) ==
  SelectSeq(Uniq(MapSeq(states, TestCaseOf)), LAMBDA n : n # "" /\ n # UNDEFINED)

DerivedPaths(doc) ==
  {p \in DOMAIN doc : p[1] \in {"current_state", "current_state_lenghts", "resultsdb_testcase"}}

\* dbMsgHandlers.ts:216: the three derived fields are replaced whole
actualize_current_states(db_artifact) ==
  LET states == db_artifact[<<"states">>]
      cs == current_state_of(states)
      csl == current_state_lenghts_of(cs)
      fresh == [p \in ({<<"current_state", s>> : s \in DOMAIN cs}
                       \cup {<<"current_state_lenghts", s>> : s \in DOMAIN csl}
                       \cup {<<"resultsdb_testcase">>}) |->
                  IF p[1] = "current_state" THEN cs[p[2]]
                  ELSE IF p[1] = "current_state_lenghts" THEN csl[p[2]]
                  ELSE resultsdb_testcase_of(states)]
  IN Overlay(Without(db_artifact, DerivedPaths(db_artifact)), fresh)

\* ------------------------------------------------------------- the handler
\* customMerge (dbMsgHandlers.ts:59) under _.mergeWith, for one key of rpm_build:
\* the value the key holds afterwards; has_dst says whether the key existed
mergeWith_key(has_dst, dst, src) ==
  IF has_dst /\ src = ""
  THEN dst                              \* both strings, the new one empty
  ELSE IF src = UNDEFINED
       THEN (IF has_dst THEN dst ELSE UNDEFINED)
       ELSE src

\* dbMsgHandlers.ts:304-311 and 336-340; nvr stands for the optional string
\* fields nvr, source, issuer, component, which are all built the same way
merge_rpm_build(db_artifact, tid, broker_msg) ==
  LET p_nvr == <<"rpm_build", "nvr">>
      has == p_nvr \in DOMAIN db_artifact
      nvr == mergeWith_key(has, IF has THEN db_artifact[p_nvr] ELSE UNDEFINED,
                           broker_msg.nvr)
  IN Put(Put(db_artifact, <<"rpm_build", "task_id">>, tid), p_nvr, nvr)

\* a handler that appends the new state without looking for its msg_id
push_state_NoDedup(db_artifact, broker_msg) ==
  LET states == IF <<"states">> \in DOMAIN db_artifact
                THEN db_artifact[<<"states">>] ELSE <<>>
  IN actualize_current_states(
       Put(db_artifact, <<"states">>, Append(states, mk_state(broker_msg))))

\* dbMsgHandlers.ts:317-335: append the new state unless its msg_id is present
push_state(db_artifact, broker_msg) ==
  LET states == IF <<"states">> \in DOMAIN db_artifact
                THEN db_artifact[<<"states">>] ELSE <<>>
      with_states == Put(db_artifact, <<"states">>, states)
  IN IF broker_msg.broker_msg_id \in Range(MapSeq(states, MsgIdOf))
     THEN with_states
     ELSE actualize_current_states(
            Put(db_artifact, <<"states">>, Append(states, mk_state(broker_msg))))

\* dbMsgHandlers.ts:289: the proposal built from the document findOrCreate gave
handler_rpm_build_test_common(db_artifact, tid, broker_msg) ==
  merge_rpm_build(push_state(db_artifact, broker_msg), tid, broker_msg)

\* ./koji koji_query(hub_name, 'getBuild', build_id): what the hub answers for
\* the build of this behaviour's artifact
getBuild(build_id) ==
  [task_id |-> task_id, nvr |-> "nvr-1", name |-> "gcompris-qt"]

\* dbMsgHandlers.ts:85-134: the proposal built from the document findOrCreate
\* gave; nvr stands for the string fields nvr, issuer, source, component
handler_buildsys_tag(artifact_doc, buildInfo, msg) ==
  LET p_nvr == <<"rpm_build", "nvr">>
      has == p_nvr \in DOMAIN artifact_doc
      nvr == mergeWith_key(has, IF has THEN artifact_doc[p_nvr] ELSE UNDEFINED,
                           buildInfo.nvr)
  IN Put(Put(Put(Put(artifact_doc, <<"rpm_build", "task_id">>, buildInfo.task_id),
                 <<"rpm_build", "build_id">>, msg.build_id),
             <<"rpm_build", "scratch">>, FALSE),
         p_nvr, nvr)

\* a topic as the characters a regular expression sees: its words, and the
\* single characters that stand between them
Join(words, sep) ==
  [i \in 1..(2 * Len(words) - 1) |->
     IF i % 2 = 1 THEN words[(i + 1) \div 2] ELSE sep]

SingleChars == {".", "-", "/", "_"}

Tokens(broker_topic) ==
  CASE broker_topic = "org.centos.prod.ci.koji-build.test.complete" ->
         Join(<<"org", "centos", "prod", "ci", "koji-build", "test", "complete">>, ".")
    [] broker_topic = "org.centos.prod.ci.koji-build.test.queued" ->
         Join(<<"org", "centos", "prod", "ci", "koji-build", "test", "queued">>, ".")
    [] broker_topic = "org.centos.prod.ci.koji-build.test.running" ->
         Join(<<"org", "centos", "prod", "ci", "koji-build", "test", "running">>, ".")
    [] broker_topic = "org.centos.prod.ci.koji-build.test.error" ->
         Join(<<"org", "centos", "prod", "ci", "koji-build", "test", "error">>, ".")
    [] broker_topic = "org.centos.prod.ci.koji-build.test.queued.copy" ->
         Join(<<"org", "centos", "prod", "ci", "koji-build", "test", "queued", "copy">>, ".")
    [] broker_topic = "org.centos.prod.buildsys.tag" ->
         Join(<<"org", "centos", "prod", "buildsys", "tag">>, ".")
    [] broker_topic = "org.fedoraproject.prod.buildsys.tag" ->
         Join(<<"org", "fedoraproject", "prod", "buildsys", "tag">>, ".")
    [] broker_topic = "org-fedoraproject-prod-buildsys-tag" ->
         Join(<<"org", "fedoraproject", "prod", "buildsys", "tag">>, "-")
    [] broker_topic = "org.example.unknown" ->
         Join(<<"org", "example", "unknown">>, ".")

\* the elements of a pattern: literal text (one of some alternatives) and the
\* unescaped dot, which stands for any one character
Lit(alternatives) == [kind |-> "lit", of |-> alternatives]

Dot == [kind |-> "any", of |-> {}]

Dotted(items) ==
  [i \in 1..(2 * Len(items) - 1) |->
     IF i % 2 = 1 THEN Lit(items[(i + 1) \div 2]) ELSE Dot]

\* re.test(broker_topic) for a pattern anchored with ^ and $
re_test(re, broker_topic) ==
  LET tok == Tokens(broker_topic)
  IN /\ Len(tok) = Len(re)
     /\ \A i \in DOMAIN re :
          IF re[i].kind = "any" THEN tok[i] \in SingleChars ELSE tok[i] \in re[i].of

\* dbMsgHandlers.ts:383-398: the patterns in the order of their handlers.set
handlers ==
  << [re |-> Dotted(<<{"org"}, {"centos"}, {"prod"}, {"buildsys"}, {"tag"}>>),
      handler |-> "handler_buildsys_tag", type |-> "koji-build-cs"],
     [re |-> Dotted(<<{"org"}, {"fedoraproject"}, {"prod"}, {"buildsys"}, {"tag"}>>),
      handler |-> "handler_buildsys_tag", type |-> "koji-build"],
     [re |-> Dotted(<<{"org"}, {"centos"}, {"prod"}, {"ci"}, {"koji-build"}, {"test"},
                      {"complete", "queued", "running", "error"}>>),
      handler |-> "handler_rpm_build_test_common", type |-> UNDEFINED] >>

\* dbMsgHandlers.ts:368  _.last(_.find([...handlers], ([re]) => re.test(broker_topic)))
get_handler(broker_topic) ==
  IF \E i \in DOMAIN handlers : re_test(handlers[i].re, broker_topic)
  THEN handlers[CHOOSE i \in DOMAIN handlers :
                  /\ re_test(handlers[i].re, broker_topic)
                  /\ \A j \in DOMAIN handlers :
                       re_test(handlers[j].re, broker_topic) => i <= j].handler
  ELSE UNDEFINED

\* ------------------------------------------------------------ mk_update_set
\* ./paths: the leaf paths of an object, arrays taken whole
paths_mongodb_pack_array(obj) == DOMAIN obj

\* _.isNull(v) || _.isUndefined(v) for the value at path p; in this model only
\* the optional string fields can be undefined
isNil(obj, p) == Kind(p) = "str" /\ obj[p] = UNDEFINED

\* ./paths: "Drop path that resolve to isNull or isUndefined" (db.ts:351)
drop_empty_paths(paths, obj) == {p \in paths : ~ isNil(obj, p)}

\* db.ts:348.  The comparator of _.differenceWith (db.ts:369) drops a new path
\* when its value equals the value of ANY path of the present document.
mk_update_set(present, newdata) ==
  LET paths_new == drop_empty_paths(paths_mongodb_pack_array(newdata), newdata)
      paths_present == drop_empty_paths(paths_mongodb_pack_array(present), present)
      paths_update ==
        {new_path \in paths_new :
           ~ \E old_path \in paths_present :
               isEqual(newdata[new_path], new_path, present[old_path], old_path)}
  IN [p \in paths_update |-> newdata[p]]

\* an emptiness test that never finds the update set empty
isEmpty_Never(update_set) == FALSE

\* db.ts:436  _.isEmpty(update_set)
isEmpty(update_set) == update_set = EmptyDoc

\* --------------------------------------------------------------- the store
TheType == "koji-build"

Matches(doc, type, aid) == doc[<<"type">>] = type /\ doc[<<"aid">>] = aid

FindIndex(coll, type, aid) ==
  IF \E i \in DOMAIN coll : Matches(coll[i], type, aid)
  THEN CHOOSE i \in DOMAIN coll :
         /\ Matches(coll[i], type, aid)
         /\ \A j \in DOMAIN coll : Matches(coll[j], type, aid) => i <= j
  ELSE 0

\* db.ts:308  $setOnInsert: { type, aid, _version: 1 }
NewDocument(id, type, aid) ==
  [p \in {<<"_id">>, <<"type">>, <<"aid">>, <<"_version">>} |->
     CASE p = <<"_id">> -> id
       [] p = <<"type">> -> type
       [] p = <<"aid">> -> aid
       [] p = <<"_version">> -> 1]

\* an upsert that inserts without looking for the pair
findOrCreate_coll_AlwaysInsert(coll, type, aid) ==
  Append(coll, NewDocument(Len(coll) + 1, type, aid))

\* db.ts:303  findOneAndUpdate({type, aid}, $setOnInsert, {upsert: true}):
\* the collection afterwards
findOrCreate_coll(coll, type, aid) ==
  IF FindIndex(coll, type, aid) # 0
  THEN coll
  ELSE Append(coll, NewDocument(Len(coll) + 1, type, aid))

\* db.ts:325  the document returned
findOrCreate_doc(coll, type, aid) ==
  LET c == findOrCreate_coll(coll, type, aid)
  IN c[FindIndex(c, type, aid)]

\* a filter that leaves _version out
FilterIndex_IdOnly(coll, entry) ==
  IF \E i \in DOMAIN coll : coll[i][<<"_id">>] = entry[<<"_id">>]
  THEN CHOOSE i \in DOMAIN coll : coll[i][<<"_id">>] = entry[<<"_id">>]
  ELSE 0

\* db.ts:444  filter = _.pick(db_entry, '_id', '_version')
FilterIndex(coll, entry) ==
  IF \E i \in DOMAIN coll : /\ coll[i][<<"_id">>] = entry[<<"_id">>]
                            /\ coll[i][<<"_version">>] = entry[<<"_version">>]
  THEN CHOOSE i \in DOMAIN coll : /\ coll[i][<<"_id">>] = entry[<<"_id">>]
                                  /\ coll[i][<<"_version">>] = entry[<<"_version">>]
  ELSE 0

\* the store rejects an update whose $set and $inc name the same path
ConflictingUpdate(update_set) == <<"_version">> \in DOMAIN update_set

\* an update without the $inc
ApplyUpdate_NoInc(doc, update_set) == Overlay(doc, update_set)

\* db.ts:445  { $inc: { _version: 1 }, $set: update_set } applied to one document
ApplyUpdate(doc, update_set) ==
  LET set == Overlay(doc, update_set)
  IN Put(set, <<"_version">>, set[<<"_version">>] + 1)

\* an update that inserts the re-read document with the new values when the
\* filter matches nothing
UpdateUnmatched_Upsert(coll, entry, update_set) ==
  Append(coll, ApplyUpdate(entry, update_set))

\* db.ts:407, 464  options = { returnOriginal: false }: findOneAndUpdate is
\* not an upsert, so a filter that matches no document changes nothing
UpdateUnmatched(coll, entry, update_set) == coll

\* ----------------------------------------------------------------- add()
NoError == [name |-> "none", broker_topic |-> UNDEFINED]

\* an error that does not carry the topic
NoAssociatedHandlerError_NoTopic(broker_topic) ==
  [name |-> "NoAssociatedHandlerError", broker_topic |-> UNDEFINED]

\* dbMsgHandlers.ts:39  constructor(m: string, public broker_topic: string)
NoAssociatedHandlerError(broker_topic) ==
  [name |-> "NoAssociatedHandlerError", broker_topic |-> broker_topic]

\* db.ts:488  new Error('All attempts failed'), and the errors of collaborators
PlainError(name) == [name |-> name, broker_topic |-> UNDEFINED]

TheAid == ToString(task_id)

Resting == {"idle", "returned_artifact", "returned_document",
            "no_handler", "handler_threw", "validation_error", "koji_failed",
            "all_attempts_failed"}

\* db.ts:408  while (_.isNull(modifiedDocument) && retries_left > 1)
LoopContinues(rl) == rl > 1

\* db.ts:408-412: the loop test and the decrement that opens an attempt;
\* falling out of the loop reaches the throw of db.ts:488
LoopHead(p, rl) ==
  IF LoopContinues(rl) /\ rl - 1 # 0
  THEN /\ pc' = [pc EXCEPT ![p] = "handler"]
       /\ retries_left' = [retries_left EXCEPT ![p] = rl - 1]
       /\ thrown' = [thrown EXCEPT ![p] = NoError]
  ELSE /\ pc' = [pc EXCEPT ![p] = "all_attempts_failed"]
       /\ thrown' = [thrown EXCEPT ![p] = PlainError("All attempts failed")]
       /\ retries_left' = [retries_left EXCEPT ![p] =
                             IF LoopContinues(rl) THEN rl - 1 ELSE rl]

\* the persisted document of this behaviour's artifact, EmptyDoc when none
Persisted ==
  IF FindIndex(collection, TheType, TheAid) = 0 THEN EmptyDoc
  ELSE collection[FindIndex(collection, TheType, TheAid)]

PersistedStates ==
  IF <<"states">> \in DOMAIN Persisted THEN Persisted[<<"states">>] ELSE <<>>

PersistedMsgIds == Range(MapSeq(PersistedStates, MsgIdOf))

\* db.ts:389-404: add(message) is called; no handler throws at once
AddStart(p, env) ==
  /\ pc[p] \in Resting
  /\ adds_left > 0
  /\ adds_left' = adds_left - 1
  /\ message' = [message EXCEPT ![p] = env]
  /\ attempts' = [attempts EXCEPT ![p] = 0]
  /\ redelivered' = [redelivered EXCEPT ![p] = env.broker_msg_id \in returned]
  /\ misses' = [misses EXCEPT ![p] = 0]
  /\ touched' = [touched EXCEPT ![p] = FALSE]
  /\ artifact' = [artifact EXCEPT ![p] = EmptyDoc]
  /\ db_entry' = [db_entry EXCEPT ![p] = EmptyDoc]
  /\ IF get_handler(env.broker_topic) = UNDEFINED
     THEN /\ pc' = [pc EXCEPT ![p] = "no_handler"]
          /\ retries_left' = [retries_left EXCEPT ![p] = RetriesInit]
          /\ thrown' = [thrown EXCEPT ![p] = NoAssociatedHandlerError(env.broker_topic)]
     ELSE LoopHead(p, RetriesInit)
  /\ last_op' = [op |-> "add", by |-> p, outcome |-> "started"]
  /\ UNCHANGED <<task_id, collection, faults_left, writes, cas_log, returned>>
  /\ UNCHANGED <<lvars, svars, ivars>>

\* db.ts:420  artifact = await handler(this, message): findOrCreate, then the proposal
HandlerOk(p) ==
  /\ pc[p] = "handler"
  /\ collection' = findOrCreate_coll(collection, TheType, TheAid)
  /\ touched' = [touched EXCEPT ![p] = @ \/ FindIndex(collection, TheType, TheAid) = 0]
  /\ artifact' = [artifact EXCEPT ![p] =
        IF get_handler(message[p].broker_topic) = "handler_buildsys_tag"
        THEN handler_buildsys_tag(
               findOrCreate_doc(collection, TheType, TheAid),
               getBuild(message[p].build_id), message[p])
        ELSE handler_rpm_build_test_common(
               findOrCreate_doc(collection, TheType, TheAid), task_id, message[p])]
  /\ attempts' = [attempts EXCEPT ![p] = @ + 1]
  /\ pc' = [pc EXCEPT ![p] = "reread"]
  /\ last_op' = [op |-> "handler", by |-> p, outcome |-> "ok"]
  /\ UNCHANGED <<task_id, message, retries_left, db_entry, adds_left, faults_left,
                 writes, cas_log, returned, redelivered, misses, thrown>>
  /\ UNCHANGED <<lvars, svars, ivars>>

\* dbMsgHandlers.ts:298-303: the handler's findOrCreate throws, and add() with it
HandlerThrows(p) ==
  /\ pc[p] = "handler"
  /\ faults_left > 0
  /\ faults_left' = faults_left - 1
  /\ attempts' = [attempts EXCEPT ![p] = @ + 1]
  /\ pc' = [pc EXCEPT ![p] = "handler_threw"]
  /\ thrown' = [thrown EXCEPT ![p] = PlainError("store error")]
  /\ last_op' = [op |-> "handler", by |-> p, outcome |-> "threw"]
  /\ UNCHANGED <<task_id, collection, message, retries_left, artifact, db_entry,
                 adds_left, writes, cas_log, returned, redelivered, misses, touched>>
  /\ UNCHANGED <<lvars, svars, ivars>>

\* a hub failure after which add() goes on to its next attempt
HandlerKojiFails_Retry(p) ==
  /\ pc[p] = "handler"
  /\ get_handler(message[p].broker_topic) = "handler_buildsys_tag"
  /\ attempts' = [attempts EXCEPT ![p] = @ + 1]
  /\ LoopHead(p, retries_left[p])
  /\ last_op' = [op |-> "getBuild", by |-> p, outcome |-> "threw"]
  /\ UNCHANGED <<task_id, collection, message, artifact, db_entry,
                 adds_left, faults_left, writes, cas_log, returned, redelivered, misses,
                 touched>>
  /\ UNCHANGED <<lvars, svars, ivars>>

\* dbMsgHandlers.ts:100-108: koji_query rejects; the handler logs and throws
\* again, and add(), which awaits the handler outside any try (db.ts:420),
\* throws with it.  The handler has not reached its findOrCreate
HandlerKojiFails(p) ==
  /\ pc[p] = "handler"
  /\ get_handler(message[p].broker_topic) = "handler_buildsys_tag"
  /\ attempts' = [attempts EXCEPT ![p] = @ + 1]
  /\ pc' = [pc EXCEPT ![p] = "koji_failed"]
  /\ thrown' = [thrown EXCEPT ![p] = PlainError("koji query error")]
  /\ last_op' = [op |-> "getBuild", by |-> p, outcome |-> "threw"]
  /\ UNCHANGED <<task_id, collection, message, retries_left, artifact, db_entry,
                 adds_left, faults_left, writes, cas_log, returned, redelivered, misses,
                 touched>>
  /\ UNCHANGED <<lvars, svars, ivars>>

\* dbMsgHandlers.ts:197 (assert_is_valid(kai_state)) and db.ts:424
\* (assert_is_valid(artifact)): the validator, a collaborator whose schemas are
\* not part of the program, may reject a state that has no thread_id.  The
\* handler's findOrCreate (dbMsgHandlers.ts:299) has run by then; the error
\* leaves add()
HandlerInvalid(p) ==
  /\ pc[p] = "handler"
  /\ mk_thread_id(message[p]) = UNDEFINED
  /\ collection' = findOrCreate_coll(collection, TheType, TheAid)
  /\ touched' = [touched EXCEPT ![p] = @ \/ FindIndex(collection, TheType, TheAid) = 0]
  /\ attempts' = [attempts EXCEPT ![p] = @ + 1]
  /\ pc' = [pc EXCEPT ![p] = "validation_error"]
  /\ thrown' = [thrown EXCEPT ![p] = PlainError("validation error")]
  /\ last_op' = [op |-> "handler", by |-> p, outcome |-> "invalid"]
  /\ UNCHANGED <<task_id, message, retries_left, artifact, db_entry, adds_left,
                 faults_left, writes, cas_log, returned, redelivered, misses>>
  /\ UNCHANGED <<lvars, svars, ivars>>

\* db.ts:428-443: the re-read, the update set, and the return when it is empty
RereadOk(p) ==
  /\ pc[p] = "reread"
  /\ collection' = findOrCreate_coll(collection, TheType, TheAid)
  /\ touched' = [touched EXCEPT ![p] = @ \/ FindIndex(collection, TheType, TheAid) = 0]
  /\ LET entry == findOrCreate_doc(collection, TheType, TheAid)
     IN /\ db_entry' = [db_entry EXCEPT ![p] = entry]
        /\ IF isEmpty(mk_update_set(entry, artifact[p]))
           THEN /\ pc' = [pc EXCEPT ![p] = "returned_artifact"]
                /\ returned' = returned \cup {message[p].broker_msg_id}
                /\ last_op' = [op |-> "reread", by |-> p, outcome |-> "empty"]
           ELSE /\ pc' = [pc EXCEPT ![p] = "update"]
                /\ returned' = returned
                /\ last_op' = [op |-> "reread", by |-> p, outcome |-> "ok"]
  /\ UNCHANGED <<task_id, message, retries_left, artifact, adds_left, faults_left,
                 attempts, writes, cas_log, redelivered, misses, thrown>>
  /\ UNCHANGED <<lvars, svars, ivars>>

\* db.ts:429-434: the re-read throws; continue
RereadThrows(p) ==
  /\ pc[p] = "reread"
  /\ faults_left > 0
  /\ faults_left' = faults_left - 1
  /\ LoopHead(p, retries_left[p])
  /\ last_op' = [op |-> "reread", by |-> p, outcome |-> "threw"]
  /\ UNCHANGED <<task_id, collection, message, artifact, db_entry, adds_left,
                 attempts, writes, cas_log, returned, redelivered, misses, touched>>
  /\ UNCHANGED <<lvars, svars, ivars>>

\* db.ts:454-486: the conditional update modifies the document; add() returns it
UpdateHit(p) ==
  /\ pc[p] = "update"
  /\ LET update_set == mk_update_set(db_entry[p], artifact[p])
         i == FilterIndex(collection, db_entry[p])
     IN /\ ~ ConflictingUpdate(update_set)
        /\ i # 0
        /\ collection' = [collection EXCEPT ![i] = ApplyUpdate(@, update_set)]
        /\ cas_log' = Append(cas_log, db_entry[p][<<"_version">>])
  /\ writes' = writes + 1
  /\ touched' = [touched EXCEPT ![p] = TRUE]
  /\ returned' = returned \cup {message[p].broker_msg_id}
  /\ pc' = [pc EXCEPT ![p] = "returned_document"]
  /\ last_op' = [op |-> "update", by |-> p, outcome |-> "hit"]
  /\ UNCHANGED <<task_id, message, retries_left, artifact, db_entry, adds_left,
                 faults_left, attempts, redelivered, misses, thrown>>
  /\ UNCHANGED <<lvars, svars, ivars>>

\* db.ts:466-483: no document matched the filter (updatedExisting is false),
\* or the store rejected the update; the catch block logs, the loop goes on
UpdateMiss(p) ==
  /\ pc[p] = "update"
  /\ LET update_set == mk_update_set(db_entry[p], artifact[p])
     IN \/ /\ ConflictingUpdate(update_set)
           /\ last_op' = [op |-> "update", by |-> p, outcome |-> "conflict"]
           /\ UNCHANGED <<collection, faults_left>>
        \/ /\ ~ ConflictingUpdate(update_set)
           /\ FilterIndex(collection, db_entry[p]) = 0
           /\ collection' = UpdateUnmatched(collection, db_entry[p], update_set)
           /\ last_op' = [op |-> "update", by |-> p, outcome |-> "miss"]
           /\ UNCHANGED faults_left
        \/ /\ faults_left > 0
           /\ faults_left' = faults_left - 1
           /\ last_op' = [op |-> "update", by |-> p, outcome |-> "threw"]
           /\ UNCHANGED collection
  /\ misses' = [misses EXCEPT ![p] = @ + 1]
  /\ LoopHead(p, retries_left[p])
  /\ UNCHANGED <<task_id, message, artifact, db_entry, adds_left,
                 attempts, writes, cas_log, returned, redelivered, touched>>
  /\ UNCHANGED <<lvars, svars, ivars>>

InitWith(adds, faults) ==
  /\ task_id \in TaskIds
  /\ collection = <<>>
  /\ pc = [p \in Updaters |-> "idle"]
  /\ message = [p \in Updaters |-> NoEnvelope]
  /\ retries_left = [p \in Updaters |-> RetriesInit]
  /\ artifact = [p \in Updaters |-> EmptyDoc]
  /\ db_entry = [p \in Updaters |-> EmptyDoc]
  /\ adds_left = adds
  /\ faults_left = faults
  /\ attempts = [p \in Updaters |-> 0]
  /\ writes = 0
  /\ cas_log = <<>>
  /\ returned = {}
  /\ redelivered = [p \in Updaters |-> FALSE]
  /\ misses = [p \in Updaters |-> 0]
  /\ last_op = [op |-> "none", by |-> 0, outcome |-> "none"]
  /\ thrown = [p \in Updaters |-> NoError]
  /\ touched = [p \in Updaters |-> FALSE]

\* ------------------------------------------------------- the bulk loader
\* what the listener may push: whether the envelope passes the fq_msg schema,
\* how many upserts getMsgUpserts derives from it, and the size of each (KiB)
MsgKinds ==
  { [valid |-> TRUE, upserts |-> 1, size |-> 1],
    [valid |-> TRUE, upserts |-> 2, size |-> 1],
    [valid |-> TRUE, upserts |-> 98, size |-> 1],
    [valid |-> TRUE, upserts |-> 1, size |-> bulkMaxSize],
    [valid |-> FALSE, upserts |-> 0, size |-> 0] }

NoEntry == [id |-> 0, valid |-> FALSE, upserts |-> 0, size |-> 0]

\* ./opensearch/opensearch getMsgUpserts: the upserts of one envelope
getMsgUpserts(fq_msg) ==
  [i \in 1 .. fq_msg.upserts |-> [msg |-> fq_msg.id, n |-> i, size |-> fq_msg.size]]

\* loader_opensearch.ts:113
getObjectSize(upsert) == upsert.size

\* loader_opensearch.ts:194  _.sum(_.map(msgUpserts, getObjectSize)): the sizes
\* added up, as the cardinality of the bag holding upsert i getObjectSize times
SumSizes(upserts) ==
  BagCardinality([i \in DOMAIN upserts |-> getObjectSize(upserts[i])])

IdsOf(entries) == [i \in DOMAIN entries |-> entries[i].id]

\* a flush test that goes on accumulating at exactly the two maxima
KeepAccumulating_Strict(seconds, upserts, bytes) ==
  /\ seconds < bulkSecondsThreshold
  /\ Len(upserts) <= bulkMaxEntries
  /\ bytes <= bulkMaxSize

\* loader_opensearch.ts:200-204: keep accumulating
KeepAccumulating(seconds, upserts, bytes) ==
  /\ seconds < bulkSecondsThreshold
  /\ Len(upserts) < bulkMaxEntries
  /\ bytes < bulkMaxSize

\* a commit loop that leaves the first entry out
commitFqMessages_SkipFirst(log, entries) ==
  IF entries = <<>> THEN log ELSE log \o IdsOf(Tail(entries))

\* loader_opensearch.ts:131: commit every entry
commitFqMessages(log, entries) == log \o IdsOf(entries)

\* loader_opensearch.ts:119: roll back every entry
rollbackFqMessages(log, entries) == log \o IdsOf(entries)

\* ids whose upserts a successful bulk write carried
BulkWritten ==
  UNION {Range(bulk_calls[i].ids) :
           i \in {j \in DOMAIN bulk_calls : bulk_calls[j].outcome = "ok"}}

\* loader_opensearch.ts:174-184: an envelope failing the fq_msg schema is logged
\* and committed; the loader writes no record of it to any store
SidelineRecords == {}

LoaderInit ==
  /\ lpc = "tpop"
  /\ queue = <<>>
  /\ fq_entry = NoEntry
  /\ fqEntries = <<>>
  /\ bulkUpserts = <<>>
  /\ bulkSizeBytes = 0
  /\ prevMsgTime = 0
  /\ secondsBetweenMessages = 0
  /\ now = 0
  /\ arrivals = 0
  /\ committed = <<>>
  /\ rolled_back = <<>>
  /\ bulk_calls = <<>>
  /\ exit_code = -1

\* start() is called: nothing is initialised yet
LoaderStartInit ==
  /\ lpc = "init"
  /\ queue = <<>>
  /\ fq_entry = NoEntry
  /\ fqEntries = <<>>
  /\ bulkUpserts = <<>>
  /\ bulkSizeBytes = 0
  /\ prevMsgTime = 0
  /\ secondsBetweenMessages = 0
  /\ now = 0
  /\ arrivals = 0
  /\ committed = <<>>
  /\ rolled_back = <<>>
  /\ bulk_calls = <<>>
  /\ exit_code = -1

\* loader_opensearch.ts:80-95: the file-queue is made, the client initialised,
\* and the signal handlers registered
start_init_ok ==
  /\ lpc = "init"
  /\ lpc' = "schemas"
  /\ UNCHANGED <<queue, fq_entry, fqEntries, bulkUpserts, bulkSizeBytes, prevMsgTime,
                 secondsBetweenMessages, now, arrivals, committed, rolled_back,
                 bulk_calls, exit_code>>
  /\ UNCHANGED <<avars, svars, ivars>>

\* loader_opensearch.ts:96-98, 149: the schemas are fetched; the loop starts
\* and prevMsgTime is taken
start_schemas_ok ==
  /\ lpc = "schemas"
  /\ lpc' = "tpop"
  /\ prevMsgTime' = now
  /\ UNCHANGED <<queue, fq_entry, fqEntries, bulkUpserts, bulkSizeBytes,
                 secondsBetweenMessages, now, arrivals, committed, rolled_back,
                 bulk_calls, exit_code>>
  /\ UNCHANGED <<avars, svars, ivars>>

\* loader_opensearch.ts:84-91: the client cannot be initialised (exit 1); or
\* fq.make (82) or getAllSchemas (97) rejects, start() rejects and the handler
\* of 234-237 exits 1
start_fails ==
  /\ lpc \in {"init", "schemas"}
  /\ lpc' = "exited"
  /\ exit_code' = 1
  /\ UNCHANGED <<queue, fq_entry, fqEntries, bulkUpserts, bulkSizeBytes, prevMsgTime,
                 secondsBetweenMessages, now, arrivals, committed, rolled_back,
                 bulk_calls>>
  /\ UNCHANGED <<avars, svars, ivars>>

\* the listener pushes an envelope to the file-queue
Push(kind) ==
  /\ exit_code = -1
  /\ arrivals < MaxArrivals
  /\ arrivals' = arrivals + 1
  /\ queue' = Append(queue, [id |-> arrivals + 1, valid |-> kind.valid,
                             upserts |-> kind.upserts, size |-> kind.size])
  /\ UNCHANGED <<lpc, fq_entry, fqEntries, bulkUpserts, bulkSizeBytes, prevMsgTime,
                 secondsBetweenMessages, now, committed, rolled_back, bulk_calls,
                 exit_code>>
  /\ UNCHANGED <<avars, svars, ivars>>

\* a second passes
Tick ==
  /\ exit_code = -1
  /\ now < MaxTime
  /\ now' = now + 1
  /\ UNCHANGED <<lpc, queue, fq_entry, fqEntries, bulkUpserts, bulkSizeBytes,
                 prevMsgTime, secondsBetweenMessages, arrivals, committed, rolled_back,
                 bulk_calls, exit_code>>
  /\ UNCHANGED <<avars, svars, ivars>>

\* a loop that takes the time of an envelope failing the schema as well
TpopOk_TimesInvalid ==
  /\ lpc = "tpop"
  /\ queue # <<>>
  /\ queue' = Tail(queue)
  /\ fq_entry' = Head(queue)
  /\ secondsBetweenMessages' = now - prevMsgTime
  /\ prevMsgTime' = now
  /\ IF ~ Head(queue).valid
     THEN /\ committed' = Append(committed, Head(queue).id)
          /\ UNCHANGED lpc
     ELSE /\ lpc' = "getMsgUpserts"
          /\ UNCHANGED committed
  /\ UNCHANGED <<fqEntries, bulkUpserts, bulkSizeBytes, now, arrivals, rolled_back,
                 bulk_calls, exit_code>>
  /\ UNCHANGED <<avars, svars, ivars>>

\* loader_opensearch.ts:161-192: tpop returns an entry; one failing the fq_msg
\* schema is committed and skipped, another has the gap to its predecessor taken
TpopOk ==
  /\ lpc = "tpop"
  /\ queue # <<>>
  /\ queue' = Tail(queue)
  /\ fq_entry' = Head(queue)
  /\ IF ~ Head(queue).valid
     THEN /\ committed' = Append(committed, Head(queue).id)
          /\ UNCHANGED <<lpc, prevMsgTime, secondsBetweenMessages>>
     ELSE /\ secondsBetweenMessages' = now - prevMsgTime
          /\ prevMsgTime' = now
          /\ lpc' = "getMsgUpserts"
          /\ UNCHANGED committed
  /\ UNCHANGED <<fqEntries, bulkUpserts, bulkSizeBytes, now, arrivals, rolled_back,
                 bulk_calls, exit_code>>
  /\ UNCHANGED <<avars, svars, ivars>>

\* loader_opensearch.ts:167-170: tpop fails
TpopThrows ==
  /\ lpc = "tpop"
  /\ lpc' = "exited"
  /\ exit_code' = 1
  /\ UNCHANGED <<queue, fq_entry, fqEntries, bulkUpserts, bulkSizeBytes, prevMsgTime,
                 secondsBetweenMessages, now, arrivals, committed, rolled_back,
                 bulk_calls>>
  /\ UNCHANGED <<avars, svars, ivars>>

\* loader_opensearch.ts:193-207: the envelope's upserts are appended; the loop
\* goes on accumulating or issues the bulk write
GetMsgUpsertsOk ==
  /\ lpc = "getMsgUpserts"
  /\ LET msgUpserts == getMsgUpserts(fq_entry)
         bytes == bulkSizeBytes + SumSizes(msgUpserts)
         upserts == bulkUpserts \o msgUpserts
         entries == Append(fqEntries, fq_entry)
     IN /\ bulkSizeBytes' = bytes
        /\ bulkUpserts' = upserts
        /\ fqEntries' = entries
        /\ IF KeepAccumulating(secondsBetweenMessages, upserts, bytes)
           THEN /\ lpc' = "tpop"
                /\ UNCHANGED bulk_calls
           ELSE /\ lpc' = "bulkUpdate"
                /\ bulk_calls' = Append(bulk_calls,
                                        [ops |-> Len(upserts), ids |-> IdsOf(entries),
                                         outcome |-> "pending"])
  /\ UNCHANGED <<queue, fq_entry, prevMsgTime, secondsBetweenMessages, now, arrivals,
                 committed, rolled_back, exit_code>>
  /\ UNCHANGED <<avars, svars, ivars>>

\* loader_opensearch.ts:193: getMsgUpserts rejects; start() rejects (234-237)
GetMsgUpsertsThrows ==
  /\ lpc = "getMsgUpserts"
  /\ lpc' = "exited"
  /\ exit_code' = 1
  /\ UNCHANGED <<queue, fq_entry, fqEntries, bulkUpserts, bulkSizeBytes, prevMsgTime,
                 secondsBetweenMessages, now, arrivals, committed, rolled_back,
                 bulk_calls>>
  /\ UNCHANGED <<avars, svars, ivars>>

\* loader_opensearch.ts:209-213: the bulk write succeeded
BulkOk ==
  /\ lpc = "bulkUpdate"
  /\ bulkUpserts' = <<>>
  /\ bulkSizeBytes' = 0
  /\ committed' = commitFqMessages(committed, fqEntries)
  /\ fqEntries' = <<>>
  /\ lpc' = "tpop"
  /\ bulk_calls' = [bulk_calls EXCEPT ![Len(bulk_calls)].outcome = "ok"]
  /\ UNCHANGED <<queue, fq_entry, prevMsgTime, secondsBetweenMessages, now, arrivals,
                 rolled_back, exit_code>>
  /\ UNCHANGED <<avars, svars, ivars>>

\* a bulk failure that ends the process with code 0
BulkFails_ExitZero(is_error) ==
  /\ lpc = "bulkUpdate"
  /\ rolled_back' = IF is_error THEN rollbackFqMessages(rolled_back, fqEntries)
                    ELSE rolled_back
  /\ lpc' = "exited"
  /\ exit_code' = 0
  /\ bulk_calls' = [bulk_calls EXCEPT ![Len(bulk_calls)].outcome = "failed"]
  /\ UNCHANGED <<queue, fq_entry, fqEntries, bulkUpserts, bulkSizeBytes, prevMsgTime,
                 secondsBetweenMessages, now, arrivals, committed>>
  /\ UNCHANGED <<avars, svars, ivars>>

\* loader_opensearch.ts:214-230: the bulk write threw err.  An Error is logged,
\* the entries are rolled back and the process exits 1; any other value is
\* thrown again (223), start() rejects and the handler of 234-237 exits 1
BulkFails(is_error) ==
  /\ lpc = "bulkUpdate"
  /\ rolled_back' = IF is_error THEN rollbackFqMessages(rolled_back, fqEntries)
                    ELSE rolled_back
  /\ lpc' = "exited"
  /\ exit_code' = 1
  /\ bulk_calls' = [bulk_calls EXCEPT ![Len(bulk_calls)].outcome = "failed"]
  /\ UNCHANGED <<queue, fq_entry, fqEntries, bulkUpserts, bulkSizeBytes, prevMsgTime,
                 secondsBetweenMessages, now, arrivals, committed>>
  /\ UNCHANGED <<avars, svars, ivars>>

\* loader_opensearch.ts:62-77: SIGINT, SIGTERM or SIGABRT, once start() has
\* registered the handler (92-95)
handle_signal ==
  /\ exit_code = -1
  /\ lpc # "init"
  /\ lpc' = "exited"
  /\ exit_code' = 0
  /\ UNCHANGED <<queue, fq_entry, fqEntries, bulkUpserts, bulkSizeBytes, prevMsgTime,
                 secondsBetweenMessages, now, arrivals, committed, rolled_back,
                 bulk_calls>>
  /\ UNCHANGED <<avars, svars, ivars>>

LoaderStep ==
  \/ TpopOk
  \/ GetMsgUpsertsOk
  \/ BulkOk

NextLoader ==
  \/ \E kind \in MsgKinds : Push(kind)
  \/ Tick
  \/ TpopOk
  \/ TpopThrows
  \/ GetMsgUpsertsOk
  \/ GetMsgUpsertsThrows
  \/ BulkOk
  \/ \E is_error \in BOOLEAN : BulkFails(is_error)
  \/ handle_signal

\* the loader from the call of start()
NextLoaderStart ==
  \/ start_init_ok
  \/ start_schemas_ok
  \/ start_fails
  \/ NextLoader

\* ----------------------------------------------------------- the listener
\* what a broker delivery may carry: a message with topic, message_id and a
\* JSON body; a body that JSON.parse rejects; a message lacking topic or
\* message_id; no message at all
DeliveryKinds == {"decodable", "undecodable", "incomplete", "empty"}

ListenerInit ==
  /\ deliveries = <<>>
  /\ links = {}
  /\ create_rounds = <<>>
  /\ opens = 0

\* a handler that pushes whatever body it got, decodable or not
process_msg_PushesUndecoded(kind) ==
  /\ Len(deliveries) < MaxDeliveries
  /\ deliveries' = Append(deliveries,
       CASE kind \in {"empty", "incomplete"} ->
              [kind |-> kind, push |-> "none", pushes |-> 0, accepted |-> FALSE]
         [] kind \in {"undecodable", "decodable"} ->
              [kind |-> kind, push |-> "pending", pushes |-> 1, accepted |-> TRUE])
  /\ UNCHANGED <<links, create_rounds, opens>>
  /\ UNCHANGED <<avars, lvars, ivars>>

\* dbMsgHandlers.ts:819-869: the handler of one delivery, run to its end: the
\* early returns, the accept of an undecodable body, and for a decodable one
\* the push that is started and not awaited, followed by the accept
process_msg(kind) ==
  /\ Len(deliveries) < MaxDeliveries
  /\ deliveries' = Append(deliveries,
       CASE kind \in {"empty", "incomplete"} ->
              [kind |-> kind, push |-> "none", pushes |-> 0, accepted |-> FALSE]
         [] kind = "undecodable" ->
              [kind |-> kind, push |-> "none", pushes |-> 0, accepted |-> TRUE]
         [] kind = "decodable" ->
              [kind |-> kind, push |-> "pending", pushes |-> 1, accepted |-> TRUE])
  /\ UNCHANGED <<links, create_rounds, opens>>
  /\ UNCHANGED <<avars, lvars, ivars>>

\* dbMsgHandlers.ts:861: the promise of fq.push is fulfilled
PushResolves(i) ==
  /\ deliveries[i].push = "pending"
  /\ deliveries' = [deliveries EXCEPT ![i].push = "stored"]
  /\ UNCHANGED <<links, create_rounds, opens>>
  /\ UNCHANGED <<avars, lvars, ivars>>

\* dbMsgHandlers.ts:861-864: the promise of fq.push is rejected; the catch
\* handler warns and throws again
PushRejects(i) ==
  /\ deliveries[i].push = "pending"
  /\ deliveries' = [deliveries EXCEPT ![i].push = "failed"]
  /\ UNCHANGED <<links, create_rounds, opens>>
  /\ UNCHANGED <<avars, lvars, ivars>>

NextListener ==
  \/ \E kind \in DeliveryKinds : process_msg(kind)
  \/ \E i \in DOMAIN deliveries : PushResolves(i)
  \/ \E i \in DOMAIN deliveries : PushRejects(i)

\* ------------------------------------------------------- receiver links
\* dbMsgHandlers.ts:458  cfg.listener.broker_umb.topics.set, a topic given twice
topics_cfg == <<"VirtualTopic.eng.ci", "VirtualTopic.eng.brew", "VirtualTopic.eng.ci">>

\* dbMsgHandlers.ts:543  _.uniq(topics_cfg)
topics == Uniq(topics_cfg)

\* dbMsgHandlers.ts:683  if (links.size === 0)
ShouldCreateLinks(set) == Cardinality(set) = 0

\* dbMsgHandlers.ts:678-689: connectionOpen, on the first open and on every
\* reconnect; create_links is called and not awaited
connectionOpen ==
  /\ opens < MaxOpens
  /\ opens' = opens + 1
  /\ create_rounds' = IF ShouldCreateLinks(links)
                      THEN Append(create_rounds, 1) ELSE create_rounds
  /\ UNCHANGED <<deliveries, links>>
  /\ UNCHANGED <<avars, lvars, ivars>>

\* dbMsgHandlers.ts:613-617: in call r of create_links, createReceiver for the
\* topic the loop stands at resolves, and the receiver is added to links
createReceiverOk(r) ==
  /\ create_rounds[r] <= Len(topics)
  /\ links' = links \cup {[topic |-> topics[create_rounds[r]], round |-> r]}
  /\ create_rounds' = [create_rounds EXCEPT ![r] = @ + 1]
  /\ UNCHANGED <<deliveries, opens>>
  /\ UNCHANGED <<avars, lvars, ivars>>

\* dbMsgHandlers.ts:618-620: createReceiver rejects; the catch logs and the
\* loop goes to the next topic
createReceiverFails(r) ==
  /\ create_rounds[r] <= Len(topics)
  /\ create_rounds' = [create_rounds EXCEPT ![r] = @ + 1]
  /\ UNCHANGED <<deliveries, links, opens>>
  /\ UNCHANGED <<avars, lvars, ivars>>

NextLinks ==
  \/ connectionOpen
  \/ \E r \in DOMAIN create_rounds : createReceiverOk(r)
  \/ \E r \in DOMAIN create_rounds : createReceiverFails(r)

\* ------------------------------------------------------------ cfg_indexes
\* index names that configuration may declare, and names left in the store by
\* earlier configurations
ConfigurableNames == <<"type_aid", "expire_at", "nvr">>
LegacyNames == <<"legacy_1", "legacy_2">>

\* the subsequence of names whose elements are in set
InOrder(names, set) == SelectSeq(names, LAMBDA n : n \in set)

\* a keep list without the primary index
KeepNames_NoPrimary(config) == config

\* db.ts:156-163: preserve.concat(names of the configured indexes)
KeepNames(config) == <<"_id_">> \o config

\* cfg_indexes is not running and the store holds the primary index only
IndexInit ==
  /\ ipc = "idle"
  /\ db_indexes = {"_id_"}
  /\ indexes_config = <<>>
  /\ indexes_active = <<>>
  /\ index_pos = 0
  /\ dropped = {}
  /\ created = {}

\* cfg_indexes is about to run, for any configuration and any set of indexes
\* in the store; the store always holds the primary index
IndexInitAny ==
  /\ ipc = "start"
  /\ \E extra \in SUBSET (Range(ConfigurableNames) \cup Range(LegacyNames)) :
       db_indexes = {"_id_"} \cup extra
  /\ \E declared \in SUBSET Range(ConfigurableNames) :
       indexes_config = InOrder(ConfigurableNames, declared)
  /\ indexes_active = <<>>
  /\ index_pos = 0
  /\ dropped = {}
  /\ created = {}

\* db.ts:150-154: the configuration and the active indexes are read
cfg_indexes_read ==
  /\ ipc = "start"
  /\ indexes_active' = InOrder(<<"_id_">> \o ConfigurableNames \o LegacyNames, db_indexes)
  /\ ipc' = "drop"
  /\ index_pos' = 1
  /\ UNCHANGED <<db_indexes, indexes_config, dropped, created>>
  /\ UNCHANGED <<avars, lvars, svars>>

\* db.ts:164-177: one round of the first loop, or past its end the test for an
\* empty configuration
cfg_indexes_drop ==
  /\ ipc = "drop"
  /\ IF index_pos <= Len(indexes_active)
     THEN /\ IF indexes_active[index_pos] \in Range(KeepNames(indexes_config))
             THEN UNCHANGED <<db_indexes, dropped>>
             ELSE /\ db_indexes' = db_indexes \ {indexes_active[index_pos]}
                  /\ dropped' = dropped \cup {indexes_active[index_pos]}
          /\ index_pos' = index_pos + 1
          /\ UNCHANGED ipc
     ELSE /\ ipc' = IF Len(indexes_config) = 0 THEN "done" ELSE "create"
          /\ index_pos' = 1
          /\ UNCHANGED <<db_indexes, dropped>>
  /\ UNCHANGED <<indexes_config, indexes_active, created>>
  /\ UNCHANGED <<avars, lvars, svars>>

\* db.ts:178-195: one round of the second loop, or its end
cfg_indexes_create ==
  /\ ipc = "create"
  /\ IF index_pos <= Len(indexes_config)
     THEN /\ IF indexes_config[index_pos] \in Range(indexes_active)
             THEN UNCHANGED <<db_indexes, created>>
             ELSE /\ db_indexes' = db_indexes \cup {indexes_config[index_pos]}
                  /\ created' = created \cup {indexes_config[index_pos]}
          /\ index_pos' = index_pos + 1
          /\ UNCHANGED ipc
     ELSE /\ ipc' = "done"
          /\ UNCHANGED <<index_pos, db_indexes, created>>
  /\ UNCHANGED <<indexes_config, indexes_active, dropped>>
  /\ UNCHANGED <<avars, lvars, svars>>

\* db.ts:153, 175, 194: a store call rejects and cfg_indexes with it
cfg_indexes_throws ==
  /\ ipc \in {"start", "drop", "create"}
  /\ ipc' = "failed"
  /\ UNCHANGED <<db_indexes, indexes_config, indexes_active, index_pos, dropped, created>>
  /\ UNCHANGED <<avars, lvars, svars>>

NextIndexes ==
  \/ cfg_indexes_read
  \/ cfg_indexes_drop
  \/ cfg_indexes_create
  \/ cfg_indexes_throws

Init == InitWith(MaxAdds, MaxFaults) /\ LoaderInit /\ ListenerInit /\ IndexInit

\* cfg_indexes alone
InitIndexes == InitWith(0, 0) /\ LoaderInit /\ ListenerInit /\ IndexInitAny

\* the store is failing throughout: every store call may throw
InitExhaust == InitWith(ExhaustAdds, RetriesInit) /\ LoaderInit /\ ListenerInit /\ IndexInit

\* the bulk loader alone
InitLoader == InitWith(0, 0) /\ LoaderInit /\ ListenerInit /\ IndexInit

\* the bulk loader from the call of start()
InitLoaderStart == InitWith(0, 0) /\ LoaderStartInit /\ ListenerInit /\ IndexInit

\* the listener alone
InitListener == InitWith(0, 0) /\ LoaderInit /\ ListenerInit /\ IndexInit

Next ==
  \E p \in Updaters :
    \/ \E env \in Envelopes : AddStart(p, env)
    \/ HandlerOk(p)
    \/ HandlerThrows(p)
    \/ RereadOk(p)
    \/ RereadThrows(p)
    \/ UpdateHit(p)
    \/ UpdateMiss(p)

\* add() on envelopes with and without a source for the thread id
NextThread ==
  \E p \in Updaters :
    \/ \E env \in EnvelopesThread : AddStart(p, env)
    \/ HandlerOk(p)
    \/ HandlerInvalid(p)
    \/ HandlerThrows(p)
    \/ RereadOk(p)
    \/ RereadThrows(p)
    \/ UpdateHit(p)
    \/ UpdateMiss(p)

\* add() on the build-tag envelope and the CI state envelopes of one artifact;
\* the hub may fail, the store does not
InitTag == InitWith(MaxAdds, 0) /\ LoaderInit /\ ListenerInit /\ IndexInit

NextTag ==
  \E p \in Updaters :
    \/ \E env \in EnvelopesTag : AddStart(p, env)
    \/ HandlerOk(p)
    \/ HandlerKojiFails(p)
    \/ RereadOk(p)
    \/ UpdateHit(p)
    \/ UpdateMiss(p)

\* add() on the envelopes that differ in the sources of the thread id; the
\* store does not fail
NextRunUrl ==
  \E p \in Updaters :
    \/ \E env \in EnvelopesRunUrl : AddStart(p, env)
    \/ HandlerOk(p)
    \/ RereadOk(p)
    \/ UpdateHit(p)
    \/ UpdateMiss(p)

\* add() on the envelopes that differ in their topic; the store does not fail
NextTopics ==
  \E p \in Updaters :
    \/ \E env \in EnvelopesTopics : AddStart(p, env)
    \/ HandlerOk(p)
    \/ RereadOk(p)
    \/ UpdateHit(p)
    \/ UpdateMiss(p)

Spec == Init /\ [][Next]_vars

SpecTopics == InitTag /\ [][NextTopics]_vars

SpecRunUrl == InitTag /\ [][NextRunUrl]_vars

SpecTag == InitTag /\ [][NextTag]_vars

SpecThread == Init /\ [][NextThread]_vars

SpecExhaust == InitExhaust /\ [][Next]_vars

SpecLoader == InitLoader /\ [][NextLoader]_vars

SpecListener == InitListener /\ [][NextListener]_vars

SpecLinks == InitListener /\ [][NextLinks]_vars

SpecLoaderStart == InitLoaderStart /\ [][NextLoaderStart]_vars

SpecIndexes == InitIndexes /\ [][NextIndexes]_vars

\* the loader's own steps are taken when they can be: the event loop runs a
\* continuation whose promise has settled; envelopes and signals need not come
SpecLoaderFair == SpecLoader /\ WF_vars(LoaderStep) /\ WF_vars(Tick)

\* ------------------------------------------------------------------ claims
PersistedVersion == Persisted[<<"_version">>]

HasDoc == Persisted # EmptyDoc

IsPrefix(s, t) == Len(s) <= Len(t) /\ SubSeq(t, 1, Len(s)) = s

\* C1: a conditional update modifies the document only when the document still
\* has the _version the updater re-read, and then bumps it by one, so that no
\* other update pending on that same _version can match any more; an update
\* that modifies nothing leaves the collection as it was and returns to the
\* loop head, which opens the next attempt (handler first) while attempts remain
C1_CasExclusive ==
  [][\A p \in Updaters :
       (pc[p] = "update" /\ pc'[p] # "update") =>
         IF pc'[p] = "returned_document"
         THEN /\ PersistedVersion = db_entry[p][<<"_version">>]
              /\ PersistedVersion' = PersistedVersion + 1
              /\ \A q \in Updaters \ {p} :
                   (pc[q] = "update"
                      /\ db_entry[q][<<"_version">>] = db_entry[p][<<"_version">>])
                   => PersistedVersion' # db_entry'[q][<<"_version">>]
         ELSE /\ collection' = collection
              /\ pc'[p] = IF retries_left[p] > 1 THEN "handler"
                          ELSE "all_attempts_failed"]_vars

\* C1 witness: an updater has just missed on a _version that another updater's
\* conditional update matched, and stands at the handler of its next attempt
C1_Witness ==
  /\ last_op.op = "update" /\ last_op.outcome = "miss"
  /\ pc[last_op.by] = "handler"
  /\ db_entry[last_op.by][<<"_version">>] \in Range(cas_log)

\* C2: once add() has returned for two envelopes with distinct msg ids handled
\* by two updaters, the persisted states holds both msg ids
C2_BothEventsPersisted ==
  \A p, q \in Updaters :
    (/\ p # q
     /\ pc[p] \in {"returned_artifact", "returned_document"}
     /\ pc[q] \in {"returned_artifact", "returned_document"}
     /\ message[p].broker_msg_id # message[q].broker_msg_id)
    => {message[p].broker_msg_id, message[q].broker_msg_id} \subseteq PersistedMsgIds

\* C3: every step leaves the persisted states as a prefix of the new ones
C3_StatesAppendOnly == [][IsPrefix(PersistedStates, PersistedStates')]_vars

\* C4: _version is 1 + the number of successful conditional updates
C4_VersionCountsWrites == HasDoc => PersistedVersion = 1 + writes

\* C6: no two persisted states share a msg id
C6_NoDuplicateMsgId ==
  \A i, j \in DOMAIN PersistedStates :
    PersistedStates[i].msg_id = PersistedStates[j].msg_id => i = j

\* C5: an add() for a msg id whose add() had already returned never modifies
\* the document
C5_RedeliveryWritesNothing ==
  (last_op.op = "update" /\ last_op.outcome = "hit") => ~ redelivered[last_op.by]

\* C4 witness: the document has been written twice and an update has been
\* turned away since
C4_Witness ==
  /\ HasDoc
  /\ writes >= 2
  /\ last_op.op = "update" /\ last_op.outcome \in {"miss", "conflict"}

\* C6 witness: an envelope whose add() had already returned was delivered
\* again, its add() has returned, and its state is persisted among others
C6_Witness ==
  \E p \in Updaters :
    /\ redelivered[p]
    /\ pc[p] \in {"returned_artifact", "returned_document"}
    /\ message[p].broker_msg_id \in PersistedMsgIds
    /\ Len(PersistedStates) >= 2

\* C7: when every attempt of add() ended in a conditional update that modified
\* nothing, add() raises all-attempts-failed only after its 30th attempt
C7_ThirtyAttempts ==
  \A p \in Updaters :
    (pc[p] = "all_attempts_failed" /\ misses[p] = attempts[p]) => attempts[p] = 30

\* C8: a step in which the bulk write succeeds commits exactly the accumulated
\* entries, in order, rolls none back, and leaves the three accumulators empty
\* with the loader about to pop
C8_BulkSuccessCommitsAll ==
  [][(lpc = "bulkUpdate" /\ lpc' = "tpop") =>
       /\ committed' = committed \o IdsOf(fqEntries)
       /\ rolled_back' = rolled_back
       /\ Range(IdsOf(fqEntries)) \cap Range(rolled_back') = {}
       /\ fqEntries' = <<>>
       /\ bulkUpserts' = <<>>
       /\ bulkSizeBytes' = 0]_vars

\* C8 witness: a bulk write of at least two entries has succeeded: all of them
\* are committed and the loader waits for the next envelope with nothing held
C8_Witness ==
  /\ lpc = "tpop"
  /\ exit_code = -1
  /\ bulk_calls # <<>>
  /\ Len(bulk_calls[1].ids) >= 2
  /\ Range(bulk_calls[1].ids) \subseteq Range(committed)
  /\ fqEntries = <<>> /\ bulkUpserts = <<>> /\ bulkSizeBytes = 0

\* C9: a step in which the bulk write fails, whatever was thrown, rolls back
\* exactly the accumulated entries, commits none, and exits non-zero
C9_BulkFailureRollsBackAll ==
  [][(\E is_error \in BOOLEAN : BulkFails(is_error)) =>
       /\ rolled_back' = rolled_back \o IdsOf(fqEntries)
       /\ committed' = committed
       /\ exit_code' > 0]_vars

\* the loader holds exactly the entries first .. last, the file-queue is empty,
\* and the last envelope came at least bulkSecondsThreshold seconds ago
IdleWith(first, last) ==
  /\ lpc = "tpop"
  /\ exit_code = -1
  /\ queue = <<>>
  /\ IdsOf(fqEntries) = [i \in 1 .. (last - first + 1) |-> first + i - 1]
  /\ now - prevMsgTime >= bulkSecondsThreshold

\* C10: accumulated entries followed by bulkSecondsThreshold seconds of silence
\* lead to a bulk write of exactly those entries (or the process has been
\* stopped), whether or not another envelope comes
C10_IdleFlush ==
  \A first, last \in 1 .. MaxArrivals :
    (first <= last) =>
      (IdleWith(first, last) ~>
         \/ exit_code # -1
         \/ \E i \in DOMAIN bulk_calls :
              bulk_calls[i].ids = [j \in 1 .. (last - first + 1) |-> first + j - 1])

\* C11: once a signal has ended the loader, each entry it was holding has been
\* either committed after a bulk write or rolled back, exactly one of the two
C11_SignalSettlesEntries ==
  (lpc = "exited" /\ exit_code = 0) =>
    \A i \in DOMAIN fqEntries :
      (fqEntries[i].id \in Range(committed) /\ fqEntries[i].id \in BulkWritten)
        # (fqEntries[i].id \in Range(rolled_back))

\* C12 as stated: after an envelope's upserts are appended, a bulk write is
\* issued exactly when the count is above 100, the size above bulkMaxSize, or
\* the gap at least 3 seconds
C12_FlushAboveMaxima ==
  [][(lpc = "getMsgUpserts" /\ lpc' \in {"tpop", "bulkUpdate"}) =>
       ((lpc' = "bulkUpdate" /\ Len(bulk_calls') = Len(bulk_calls) + 1)
          <=> \/ Len(bulkUpserts') > bulkMaxEntries
              \/ bulkSizeBytes' > bulkMaxSize
              \/ secondsBetweenMessages >= bulkSecondsThreshold)]_vars

\* C12 amended: the bulk write is issued exactly when the count is at least
\* 100, the size at least bulkMaxSize, or the gap at least 3 seconds; otherwise
\* no write is issued and the loader returns to tpop with everything kept
C12_FlushAtMaxima ==
  [][(lpc = "getMsgUpserts" /\ lpc' \in {"tpop", "bulkUpdate"}) =>
       /\ (lpc' = "bulkUpdate" /\ Len(bulk_calls') = Len(bulk_calls) + 1)
            <=> \/ Len(bulkUpserts') >= bulkMaxEntries
                \/ bulkSizeBytes' >= bulkMaxSize
                \/ secondsBetweenMessages >= bulkSecondsThreshold
       /\ lpc' = "tpop" => (bulk_calls' = bulk_calls
                             /\ Len(fqEntries') = Len(fqEntries) + 1)]_vars

\* C12 witness: a bulk write was issued at exactly 100 operations, below the
\* size maximum and within the gap
C12_Witness ==
  /\ lpc = "bulkUpdate"
  /\ Len(bulkUpserts) = bulkMaxEntries
  /\ bulkSizeBytes < bulkMaxSize
  /\ secondsBetweenMessages < bulkSecondsThreshold

\* C13: no bulk write carries more than 100 operations
C13_AtMostHundredOps ==
  \A i \in DOMAIN bulk_calls : bulk_calls[i].ops <= bulkMaxEntries

\* C14: every committed envelope was carried by a successful bulk write or has
\* a record in a sideline store
C14_CommittedLeavesTrace ==
  \A i \in DOMAIN committed :
    committed[i] \in BulkWritten \/ committed[i] \in SidelineRecords

\* C15: a delivery carrying a decodable message is accepted only once its
\* envelope has been stored in the file-queue
C15_AcceptAfterPush ==
  \A i \in DOMAIN deliveries :
    (deliveries[i].kind = "decodable" /\ deliveries[i].accepted)
      => deliveries[i].push = "stored"

\* the non-empty kai_state.state values occurring in states
ObservedStates(states) == {states[i].state : i \in DOMAIN states} \ {""}

\* C16: in the persisted document, for every state s observed in states,
\* current_state_lenghts[s] is the number of entries of current_state[s]
C16_LenghtsMatchBuckets ==
  \A s \in ObservedStates(PersistedStates) :
    /\ <<"current_state", s>> \in DOMAIN Persisted
    /\ <<"current_state_lenghts", s>> \in DOMAIN Persisted
    /\ Persisted[<<"current_state_lenghts", s>>] = Len(Persisted[<<"current_state", s>>])

\* the documents actualize_current_states leaves behind (dbMsgHandlers.ts:324-328),
\* for every states array held by a proposal or by the persisted document
ActualizedDocs ==
  {actualize_current_states(d) :
     d \in {e \in {artifact[p] : p \in Updaters} \cup {Persisted} :
              <<"states">> \in DOMAIN e /\ e[<<"states">>] # <<>>}}

BucketPaths(d) == {q \in DOMAIN d : q[1] = "current_state"}

\* C17: every entry of a bucket carries the bucket's key as its state and the
\* greatest timestamp among the states of its thread
C17_BucketsHoldMostRecent ==
  \A d \in ActualizedDocs :
    \A q \in BucketPaths(d) :
      \A i \in DOMAIN d[q] :
        /\ d[q][i].state = q[2]
        /\ \A j \in DOMAIN d[<<"states">>] :
              d[<<"states">>][j].thread_id = d[q][i].thread_id
                => d[<<"states">>][j].timestamp <= d[q][i].timestamp

\* C17 witness: a bucket entry whose thread holds an older state as well, in a
\* document with two threads
C17_Witness ==
  \E d \in ActualizedDocs :
    /\ Cardinality({d[<<"states">>][j].thread_id : j \in DOMAIN d[<<"states">>]}) >= 2
    /\ \E q \in BucketPaths(d) : \E i \in DOMAIN d[q] :
         \E j \in DOMAIN d[<<"states">>] :
           /\ d[<<"states">>][j].thread_id = d[q][i].thread_id
           /\ d[<<"states">>][j].timestamp < d[q][i].timestamp

\* every state of states carrying s has a later state in its thread
Superseded(states, s) ==
  \A i \in DOMAIN states :
    states[i].state = s =>
      \E j \in DOMAIN states : /\ states[j].thread_id = states[i].thread_id
                                /\ states[j].timestamp > states[i].timestamp

\* C18: the keys of current_state and of current_state_lenghts are the non-empty
\* states occurring in states; a superseded state keeps its key, with an empty
\* bucket and length 0
C18_KeysAreObservedStates ==
  \A d \in ActualizedDocs :
    /\ {q[2] : q \in BucketPaths(d)} = ObservedStates(d[<<"states">>])
    /\ {q[2] : q \in {r \in DOMAIN d : r[1] = "current_state_lenghts"}}
         = ObservedStates(d[<<"states">>])
    /\ \A s \in ObservedStates(d[<<"states">>]) :
         Superseded(d[<<"states">>], s) =>
           /\ d[<<"current_state", s>>] = <<>>
           /\ d[<<"current_state_lenghts", s>>] = 0

\* C18 witness: a document one of whose observed states is superseded
C18_Witness ==
  \E d \in ActualizedDocs :
    \E s \in ObservedStates(d[<<"states">>]) :
      /\ Superseded(d[<<"states">>], s)
      /\ d[<<"current_state_lenghts", s>>] = 0

\* the envelope has neither a non-empty pipeline.id nor a non-empty run.url
LacksThreadSource(env) ==
  /\ "pipeline_id" \in DOMAIN env
  /\ env.pipeline_id \in {"", UNDEFINED}
  /\ env.run_url \in {"", UNDEFINED}

\* C19: once the handler has built the state of an envelope that has no source
\* for the thread id, add() has ended with the no-thread-id error; it holds no
\* proposal whose new state has an undefined thread_id
C19_NoThreadIdRaised ==
  \A p \in Updaters :
    (LacksThreadSource(message[p]) /\ pc[p] \notin {"handler", "handler_threw"})
      => pc[p] = "no_thread_id_error"

\* C20: no step of an add() processing an envelope that has no source for the
\* thread id changes the artifacts collection
C20_CollectionUntouched ==
  [][\A p \in Updaters :
       (/\ LacksThreadSource(message[p])
        /\ pc[p] \in {"handler", "reread", "update"}
        /\ pc'[p] # pc[p])
         => collection' = collection]_vars

\* C21: an add() whose envelope's topic matches no registered pattern ends at
\* once with NoAssociatedHandlerError carrying that topic: no attempt is made
\* (the handler, the only reader of the collection before the update, is never
\* invoked) and the collection is left as it was
C21_NoHandlerNoAccess ==
  [][\A p \in Updaters :
       (/\ pc'[p] # pc[p] \/ message'[p] # message[p]
        /\ get_handler(message'[p].broker_topic) = UNDEFINED)
         => /\ pc'[p] = "no_handler"
            /\ thrown'[p].name = "NoAssociatedHandlerError"
            /\ thrown'[p].broker_topic = message'[p].broker_topic
            /\ attempts'[p] = 0
            /\ retries_left'[p] = RetriesInit
            /\ collection' = collection]_vars

\* C21 witness: add() has thrown for the unknown topic while the collection
\* holds a document written for another envelope
C21_Witness ==
  \E p \in Updaters :
    /\ pc[p] = "no_handler"
    /\ thrown[p] = NoAssociatedHandlerError("org.example.unknown")
    /\ attempts[p] = 0
    /\ HasDoc /\ writes >= 1

\* the proposal's paths whose value is neither null nor undefined and differs
\* from the value the present document holds at that same path
ChangedAtSamePath(present, newdata) ==
  {q \in DOMAIN newdata :
     /\ ~ isNil(newdata, q)
     /\ (q \notin DOMAIN present \/ isNil(present, q) \/ present[q] # newdata[q])}

\* C22: the update set computed from the re-read document and the proposal maps
\* exactly the paths whose value changed at that path to the proposal's value
C22_UpdateSetIsPathwiseDiff ==
  \A p \in Updaters :
    (pc[p] \in {"update", "returned_artifact", "returned_document"}
       /\ db_entry[p] # EmptyDoc)
      => mk_update_set(db_entry[p], artifact[p])
           = [q \in ChangedAtSamePath(db_entry[p], artifact[p]) |-> artifact[p][q]]

\* updater p, the only one to have run, has made one add() for each of the
\* envelopes ids and no other; all have returned, the one for last most recently
AloneAfter(p, ids, last) ==
  /\ \A q \in Updaters \ {p} : message[q] = NoEnvelope
  /\ pc[p] \in {"returned_artifact", "returned_document"}
  /\ message[p].broker_msg_id = last
  /\ returned = ids
  /\ adds_left = MaxAdds - Cardinality(ids)

\* C23 as stated: for an artifact not seen before, the build-tag event leaves
\* _version at 1, the test-queued event that follows at 2, and the
\* test-complete event after them at 3
C23_VersionsOneTwoThree ==
  \A p \in Updaters :
    /\ AloneAfter(p, {"t1"}, "t1") => PersistedVersion = 1
    /\ AloneAfter(p, {"t1", "m1"}, "m1") => PersistedVersion = 2
    /\ AloneAfter(p, {"t1", "m1", "m2"}, "m2") => PersistedVersion = 3

\* C23 amended: the build-tag event leaves _version at 2 (the document is
\* created with 1 and the write of rpm_build increments it), the test-queued
\* event at 3, and the test-complete event at 4
C23_VersionsTwoThreeFour ==
  \A p \in Updaters :
    /\ AloneAfter(p, {"t1"}, "t1") => PersistedVersion = 2
    /\ AloneAfter(p, {"t1", "m1"}, "m1") => PersistedVersion = 3
    /\ AloneAfter(p, {"t1", "m1", "m2"}, "m2") => PersistedVersion = 4

\* C23 witness: the three events have been processed one after the other, the
\* test-complete event last, and its state is persisted behind the queued one
C23_Witness ==
  \E p \in Updaters :
    /\ AloneAfter(p, {"t1", "m1", "m2"}, "m2")
    /\ <<"rpm_build", "build_id">> \in DOMAIN Persisted
    /\ [i \in DOMAIN PersistedStates |-> PersistedStates[i].msg_id] = <<"m1", "m2">>

\* C24: the collection never holds two documents with the same type and aid
C24_OneDocumentPerKey ==
  \A i, j \in DOMAIN collection :
    (collection[i][<<"type">>] = collection[j][<<"type">>]
       /\ collection[i][<<"aid">>] = collection[j][<<"aid">>]) => i = j

\* C24 witness: both updaters have called findOrCreate for the pair, the first
\* of them when no document existed, and neither has written yet
C24_Witness ==
  /\ \A p \in Updaters : pc[p] = "reread" /\ attempts[p] = 1
  /\ writes = 0
  /\ Len(collection) = 1
  /\ adds_left = MaxAdds - Cardinality(Updaters)

\* C25: when cfg_indexes has completed, the store holds exactly the primary
\* index and the configured ones: what was dropped is every index that was
\* active and is neither primary nor configured, what was created is every
\* configured index that was not active
C25_IndexesReconciled ==
  ipc = "done" =>
    /\ db_indexes = {"_id_"} \cup Range(indexes_config)
    /\ dropped = Range(indexes_active) \ ({"_id_"} \cup Range(indexes_config))
    /\ created = Range(indexes_config) \ Range(indexes_active)
    /\ dropped \cap ({"_id_"} \cup Range(indexes_config)) = {}

\* C25 witness: cfg_indexes has completed after dropping an index, creating
\* another and keeping a configured one that was active
C25_Witness ==
  /\ ipc = "done"
  /\ dropped # {}
  /\ created # {}
  /\ \E n \in Range(indexes_config) : n \in Range(indexes_active)

\* the step is a failed hub lookup of updater p
KojiFailed(p) ==
  /\ pc[p] = "handler"
  /\ attempts'[p] = attempts[p] + 1
  /\ last_op'.op = "getBuild" /\ last_op'.by = p /\ last_op'.outcome = "threw"

\* C26 as stated: when add() has ended with the hub's failure, that add() has
\* neither inserted nor modified a document
C26_KojiFailureLeavesNoTrace ==
  \A p \in Updaters : pc[p] = "koji_failed" => ~ touched[p]

\* C26 amended: a failed hub lookup ends add() at once with the hub's error: the
\* loop is not entered again, the failing attempt leaves the collection as it
\* was, and when it was the first attempt this add() has inserted and
\* modified nothing
C26_KojiFailureEndsAdd ==
  [][\A p \in Updaters :
       KojiFailed(p) =>
         /\ pc'[p] = "koji_failed"
         /\ thrown'[p] = PlainError("koji query error")
         /\ retries_left'[p] = retries_left[p]
         /\ collection' = collection
         /\ attempts'[p] = 1 => ~ touched'[p]]_vars

\* C26 witness: add() has ended with the hub's failure on its first attempt
\* while the collection holds a document written for another envelope
C26_Witness ==
  \E p \in Updaters :
    /\ pc[p] = "koji_failed"
    /\ attempts[p] = 1
    /\ ~ touched[p]
    /\ HasDoc /\ writes >= 1

\* C27: the process ends with code 0 or 1; with 0 only by a step of the signal
\* handler; with 1 when start() fails before the loop and when the bulk write
\* fails; and once a bulk write has failed the exit code is 1
C27_ExitCodes ==
  [][/\ (exit_code = -1 /\ exit_code' # -1) =>
          /\ exit_code' \in {0, 1}
          /\ exit_code' = 0 => handle_signal
          /\ lpc = "init" => exit_code' = 1
          /\ (lpc \in {"init", "schemas"} /\ ~ handle_signal) => exit_code' = 1
          /\ (lpc = "bulkUpdate" /\ bulk_calls' # bulk_calls) => exit_code' = 1
     /\ (\E i \in DOMAIN bulk_calls' : bulk_calls'[i].outcome = "failed")
          => exit_code' = 1]_vars

\* C27 witness: the process has ended with code 1 after a bulk write that
\* followed a successful one failed
C27_Witness ==
  /\ lpc = "exited"
  /\ exit_code = 1
  /\ Len(bulk_calls) >= 2
  /\ bulk_calls[1].outcome = "ok"
  /\ bulk_calls[Len(bulk_calls)].outcome = "failed"

NvrPath == <<"rpm_build", "nvr">>

\* the value the event of envelope env offers for rpm_build.nvr
EventNvr(env) ==
  IF get_handler(env.broker_topic) = "handler_buildsys_tag"
  THEN getBuild(env.build_id).nvr
  ELSE env.nvr

\* the document holds a non-empty rpm_build.nvr
NvrSet(doc) == NvrPath \in DOMAIN doc /\ doc[NvrPath] \notin {"", UNDEFINED}

\* C28: in the proposal a handler builds from the document findOrCreate gave
\* it, a field missing in the document is assigned the event's value, a field
\* the document holds is kept when the event's value is absent or empty, and
\* a non-empty event value overwrites it
C28_MergeKeepsSetFields ==
  [][\A p \in Updaters :
       (pc[p] = "handler" /\ pc'[p] = "reread") =>
         LET doc == findOrCreate_doc(collection, TheType, TheAid)
             src == EventNvr(message[p])
         IN /\ NvrPath \in DOMAIN artifact'[p]
            /\ artifact'[p][NvrPath] =
                 IF NvrPath \notin DOMAIN doc THEN src
                 ELSE IF src \in {"", UNDEFINED} THEN doc[NvrPath]
                 ELSE src
            /\ (NvrSet(doc) /\ src \in {"", UNDEFINED}) => NvrSet(artifact'[p])]_vars

StatesHeld ==
  {d[<<"states">>] :
     d \in {e \in {artifact[p] : p \in Updaters} \cup {Persisted} :
              <<"states">> \in DOMAIN e}}

\* the envelope a state was made from
EnvelopeOf(st) == CHOOSE env \in EnvelopesRunUrl : env.broker_msg_id = st.msg_id

HasPipelineId(env) == env.pipeline_id \notin {"", UNDEFINED}

HasRunUrl(env) == env.run_url \notin {"", UNDEFINED}

\* C29: a state made from an envelope with a non-empty pipeline.id carries it
\* as thread_id whatever run.url is; a state made from an envelope without
\* pipeline.id and with a run.url carries a dummy-thread id, which is the same
\* for two envelopes with the same run.url
C29_ThreadIdDerivation ==
  \A states \in StatesHeld :
    \A i, j \in DOMAIN states :
      LET ei == EnvelopeOf(states[i])
          ej == EnvelopeOf(states[j])
      IN /\ HasPipelineId(ei) => states[i].thread_id = ei.pipeline_id
         /\ (~ HasPipelineId(ei) /\ HasRunUrl(ei))
              => states[i].thread_id \in {"dummy-thread-9f2c", "dummy-thread-41aa"}
         /\ (~ HasPipelineId(ei) /\ ~ HasPipelineId(ej)
               /\ HasRunUrl(ei) /\ ei.run_url = ej.run_url)
              => states[i].thread_id = states[j].thread_id

\* C29 witness: a document holds the states of two envelopes with the same
\* run.url and no pipeline.id, and the state of an envelope with both
C29_Witness ==
  \E states \in StatesHeld :
    /\ {"m3", "m8", "m9"} \subseteq {states[i].msg_id : i \in DOMAIN states}
    /\ \A i \in DOMAIN states :
         states[i].msg_id = "m8" => states[i].thread_id = "T2"

\* C30: when the update set computed from the re-read document is empty, add()
\* returns the proposal on that attempt: no conditional update is issued, and
\* the persisted document, _version included, is the document re-read
C30_EmptyUpdateSetNoWrite ==
  [][\A p \in Updaters :
       (/\ pc[p] = "reread"
        /\ db_entry'[p] # db_entry[p] \/ pc'[p] \in {"update", "returned_artifact"}
        /\ mk_update_set(db_entry'[p], artifact[p]) = EmptyDoc)
         => /\ pc'[p] = "returned_artifact"
            /\ attempts'[p] = attempts[p]
            /\ writes' = writes /\ cas_log' = cas_log
            /\ collection' = collection
            /\ Persisted' = db_entry'[p]
            /\ message[p].broker_msg_id \in returned']_vars

\* C30 witness: add() has returned the proposal of an envelope delivered again
\* after its first add() had written the document
C30_Witness ==
  \E p \in Updaters :
    /\ pc[p] = "returned_artifact"
    /\ redelivered[p]
    /\ last_op = [op |-> "reread", by |-> p, outcome |-> "empty"]
    /\ PersistedVersion = 1 + writes /\ writes >= 1
    /\ Persisted = db_entry[p]

\* a store call of updater p has just failed: the handler's findOrCreate, the
\* re-read or the conditional update threw, or the update matched no document
StoreCallFailed(p) ==
  /\ last_op.by = p
  /\ last_op.op \in {"handler", "reread", "update"}
  /\ last_op.outcome \in {"threw", "miss"}

\* C31: a CAS miss or a store error on any store call of an attempt (the
\* handler's findOrCreate, the re-read, the conditional update) does not end
\* add() while attempts remain: the next attempt starts at the handler; add()
\* gives up only when the loop of db.ts:408 has no attempt left
C31_StoreFailureRetries ==
  \A p \in Updaters :
    StoreCallFailed(p) =>
      \/ pc[p] = "handler"
      \/ pc[p] = "all_attempts_failed" /\ ~ LoopContinues(retries_left[p])

\* C32: the $set of every conditional update add() issues (db.ts:445-448, an
\* updater standing at the findOneAndUpdate of db.ts:464) holds neither
\* _version nor _id, whatever other writers did between the handler's read
\* and the re-read
C32_SetOmitsVersionAndId ==
  \A p \in Updaters :
    pc[p] = "update" =>
      /\ <<"_version">> \notin DOMAIN mk_update_set(db_entry[p], artifact[p])
      /\ <<"_id">> \notin DOMAIN mk_update_set(db_entry[p], artifact[p])

\* updater p stands at the findOneAndUpdate of db.ts:464 with a filter
\* {_id, _version} that no document of the collection matches
FilterMatchesNothing(p) ==
  pc[p] = "update" /\ FilterIndex(collection, db_entry[p]) = 0

\* C33: a conditional update whose filter {_id, _version} matches no document
\* leaves the collection as it was, creating no document and modifying none;
\* the collection gains a document only in a findOrCreate (the handler's or
\* the re-read)
C33_UnmatchedUpdateChangesNothing ==
  [][/\ \A p \in Updaters :
          (FilterMatchesNothing(p) /\ pc'[p] # pc[p]) => collection' = collection
     /\ Len(collection') # Len(collection) =>
          /\ Len(collection') = Len(collection) + 1
          /\ last_op'.op \in {"handler", "reread"}
          /\ SubSeq(collection', 1, Len(collection)) = collection
          /\ collection'[Len(collection')] =
               NewDocument(Len(collection'), TheType, TheAid)]_vars

\* an update of updater p has just missed on a collection that holds the
\* document, and p is back at the handler for its next attempt
C33_Witness ==
  \E p \in Updaters :
    /\ last_op = [op |-> "update", by |-> p, outcome |-> "miss"]
    /\ Len(collection) = 1
    /\ PersistedVersion > db_entry[p][<<"_version">>]
    /\ pc[p] = "handler"

\* the topics the handlers are declared for
BuildTagTopics ==
  {"org.centos.prod.buildsys.tag", "org.fedoraproject.prod.buildsys.tag"}

CiStateTopics ==
  {"org.centos.prod.ci.koji-build.test.complete",
   "org.centos.prod.ci.koji-build.test.queued",
   "org.centos.prod.ci.koji-build.test.running",
   "org.centos.prod.ci.koji-build.test.error"}

\* C34: for the topic of every envelope add() is called with, get_handler
\* returns the build-tag handler exactly for the two build-tag topics, the CI
\* state handler exactly for the four CI state topics, and no handler for any
\* other string, a declared topic with other separator characters included;
\* add() throws NoAssociatedHandlerError for those
C34_ExactTopicsOnly ==
  \A p \in Updaters :
    pc[p] # "idle" =>
      LET topic == message[p].broker_topic
      IN /\ get_handler(topic) = "handler_buildsys_tag" <=> topic \in BuildTagTopics
         /\ get_handler(topic) = "handler_rpm_build_test_common"
              <=> topic \in CiStateTopics
         /\ get_handler(topic) = UNDEFINED
              <=> topic \notin BuildTagTopics \cup CiStateTopics
         /\ topic \notin BuildTagTopics \cup CiStateTopics => pc[p] = "no_handler"

\* the entries of all buckets of d, each as <<bucket path, position>>
BucketEntries(d) ==
  UNION {{<<q, i>> : i \in DOMAIN d[q]} : q \in BucketPaths(d)}

ThreadsOf(d) == {d[<<"states">>][j].thread_id : j \in DOMAIN d[<<"states">>]}

LenghtPaths(d) == {q \in DOMAIN d : q[1] = "current_state_lenghts"}

RECURSIVE SumLenghts(_, _)
SumLenghts(d, paths) ==
  IF paths = {} THEN 0
  ELSE LET q == CHOOSE r \in paths : TRUE
       IN d[q] + SumLenghts(d, paths \ {q})

\* the states of d are a queued state and a later complete state of one thread
QueuedThenComplete(d) ==
  LET states == d[<<"states">>]
  IN /\ Len(states) = 2
     /\ states[1].thread_id = states[2].thread_id
     /\ states[1].state = "queued" /\ states[2].state = "complete"
     /\ states[1].timestamp < states[2].timestamp

\* C35: after actualize_current_states every thread_id of states has exactly
\* one entry in all the buckets of current_state together, in the bucket named
\* by the state of that thread's most recent state; the values of
\* current_state_lenghts add up to the number of distinct thread_ids; queued
\* followed by complete on one thread leaves queued empty and one entry in
\* complete
C35_OneEntryPerThread ==
  \A d \in ActualizedDocs :
    /\ \A t \in ThreadsOf(d) :
         /\ Cardinality({e \in BucketEntries(d) : d[e[1]][e[2]].thread_id = t}) = 1
         /\ \A e \in BucketEntries(d) :
              d[e[1]][e[2]].thread_id = t =>
                /\ d[e[1]][e[2]] = recent_of_thread(d[<<"states">>], t)
                /\ e[1][2] = d[e[1]][e[2]].state
                /\ \A j \in DOMAIN d[<<"states">>] :
                     d[<<"states">>][j].thread_id = t =>
                       d[<<"states">>][j].timestamp <= d[e[1]][e[2]].timestamp
    /\ \A e \in BucketEntries(d) : d[e[1]][e[2]].thread_id \in ThreadsOf(d)
    /\ SumLenghts(d, LenghtPaths(d)) = Cardinality(ThreadsOf(d))
    /\ QueuedThenComplete(d) =>
         /\ d[<<"current_state", "queued">>] = <<>>
         /\ Len(d[<<"current_state", "complete">>]) = 1

\* C35 witness: a document with queued then complete on one thread, and a
\* document with two threads, one of which moved from queued to complete
C35_Witness ==
  /\ \E d \in ActualizedDocs :
       /\ QueuedThenComplete(d)
       /\ d[<<"current_state_lenghts", "queued">>] = 0
  /\ \E d \in ActualizedDocs :
       /\ Cardinality(ThreadsOf(d)) = 2
       /\ Len(d[<<"states">>]) = 3
       /\ SumLenghts(d, LenghtPaths(d)) = 2

\* the ids of the entries tpop has returned so far: ids are given in the
\* order of arrival, and an entry leaves the queue only through tpop
Popped == {id \in 1 .. arrivals : id \notin Range(IdsOf(queue))}

\* how many times the callback log holds id
TimesIn(log, id) == Cardinality({i \in DOMAIN log : log[i] = id})

\* C36: no entry is ever settled twice (committed and rolled back, or either
\* of them more than once), and once the loader has exited, by whichever
\* path, every entry tpop returned has been settled
C36_PoppedSettledOnce ==
  /\ \A id \in Popped : TimesIn(committed, id) + TimesIn(rolled_back, id) <= 1
  /\ lpc = "exited" =>
       \A id \in Popped : TimesIn(committed, id) + TimesIn(rolled_back, id) = 1

\* tpop returns, in this step, an envelope that fails the fq_msg schema
PopsInvalid ==
  /\ lpc = "tpop"
  /\ queue # <<>>
  /\ ~ Head(queue).valid
  /\ queue' = Tail(queue)

\* C37: an envelope failing the fq_msg schema is committed in the step that
\* pops it, and only it; the step adds no upsert and no accumulated entry,
\* leaves the byte count and the previous-message time as they were, issues
\* no bulk write, and the loop waits for the next envelope
C37_InvalidCommittedAndSkipped ==
  [][PopsInvalid =>
       /\ committed' = Append(committed, Head(queue).id)
       /\ rolled_back' = rolled_back
       /\ bulkUpserts' = bulkUpserts
       /\ fqEntries' = fqEntries
       /\ bulkSizeBytes' = bulkSizeBytes
       /\ prevMsgTime' = prevMsgTime
       /\ secondsBetweenMessages' = secondsBetweenMessages
       /\ bulk_calls' = bulk_calls
       /\ lpc' = "tpop"]_vars

\* C37 witness: an invalid envelope has been popped and committed while an
\* earlier envelope is held and time has passed since that one came
C37_Witness ==
  /\ lpc = "tpop"
  /\ ~ fq_entry.valid
  /\ fq_entry.id \in Range(committed)
  /\ fq_entry.id \notin Range(IdsOf(fqEntries))
  /\ fqEntries # <<>>
  /\ bulkSizeBytes > 0
  /\ now > prevMsgTime

\* C38: each delivery has at most one envelope pushed for it, and one only when
\* its message has a topic, a message_id and a decodable body; a delivery
\* with an undecodable body is accepted and nothing is pushed for it, one
\* without topic or message_id (or without a message at all) is neither pushed
\* nor accepted
C38_OnePushPerDecodableDelivery ==
  \A i \in DOMAIN deliveries :
    /\ deliveries[i].pushes <= 1
    /\ (deliveries[i].pushes = 1 \/ deliveries[i].push # "none")
         => deliveries[i].kind = "decodable"
    /\ deliveries[i].kind = "undecodable" =>
         /\ deliveries[i].accepted
         /\ deliveries[i].pushes = 0
         /\ deliveries[i].push = "none"
    /\ deliveries[i].kind \in {"incomplete", "empty"} =>
         /\ ~ deliveries[i].accepted
         /\ deliveries[i].pushes = 0
         /\ deliveries[i].push = "none"

\* C38 witness: a decodable, an undecodable and an incomplete delivery have all
\* been handled, and the push of the decodable one has settled
C38_Witness ==
  /\ \E i \in DOMAIN deliveries :
       /\ deliveries[i].kind = "decodable"
       /\ deliveries[i].pushes = 1
       /\ deliveries[i].push \in {"stored", "failed"}
  /\ \E i \in DOMAIN deliveries :
       deliveries[i].kind = "undecodable" /\ deliveries[i].accepted
  /\ \E i \in DOMAIN deliveries :
       deliveries[i].kind = "incomplete" /\ ~ deliveries[i].accepted

LinksOf(topic) == {l \in links : l.topic = topic}

\* the first call of create_links has gone through all its topics
FirstRoundFinished ==
  create_rounds # <<>> /\ create_rounds[1] > Len(topics)

\* C39: whatever connectionOpen events occur, the first open and reconnects,
\* also two of them before link creation has finished, no configured topic
\* ever has more than one receiver link, and once the first call of
\* create_links has finished every configured topic has a link
C39_OneLinkPerTopic ==
  /\ \A t \in Range(topics) : Cardinality(LinksOf(t)) <= 1
  /\ FirstRoundFinished => \A t \in Range(topics) : LinksOf(t) # {}

\* the paths at which doc holds a value that is neither null nor undefined
HeldPaths(doc) == drop_empty_paths(paths_mongodb_pack_array(doc), doc)

\* C40: the update set mk_update_set builds from the re-read document and the
\* proposal holds only array paths and paths the re-read document does not
\* hold: a scalar path that holds a value there is never in it, whatever
\* value the proposal has for it
C40_ScalarsNeverOverwritten ==
  \A p \in Updaters :
    pc[p] = "update" =>
      \A path \in DOMAIN mk_update_set(db_entry[p], artifact[p]) :
        \/ IsArrayKind(Kind(path))
        \/ path \notin HeldPaths(db_entry[p])

====
